---- MODULE Spec2Model ----
(***************************************************************************)
(* Retrieval-to-generation pipeline of the document Q&A service:           *)
(* SearchService.semantic_search (filtered query, unfiltered fallback,     *)
(* resolution of hits against the relational store), RAGService            *)
(* (answer_question, answer_question_stream, multi_query_rag), the         *)
(* streaming generator of LLMService and the /ask and /ask/stream routes.  *)
(* The ingestion services TextChunker.chunk_pages and                      *)
(* EmbeddingService.generate_embeddings_batch and the helpers that score   *)
(* results and assemble the context have specifications of their own.      *)
(*                                                                         *)
(* External calls (embedding provider, vector index, model provider) are   *)
(* the suspension points; each one either returns or raises.               *)
(***************************************************************************)
EXTENDS Integers, Sequences, FiniteSets, TLC

\* ------------------------------------------------------------------ bounds
MaxTopK == 3
MaxFragments == 2
MaxQuestions == 3
MaxPages == 3
MaxTexts == 4
MaxBatchSize == 3
MaxDistance == 400
MaxResults == 2
MaxContentLen == 250
MaxChunks == 22
MaxTasks == 2
MaxUploadChunks == 2

\* ------------------------------------------------------------- value sets
Docs == {"d1", "d2"}
\* upload_pdf names a chunk f"{document.id}_chunk_{i}"
ChunkIds == {"d1_chunk_0", "d1_chunk_1", "d2_chunk_0"}
Users == {"default_user", "alice"}
Questions == {"q1", "q2"}
NoFilter == "no_filter"
NoneDelta == "None"
Deltas == {"tok_a", "tok_b"}
TopKs == 1..MaxTopK

\* ContentChunk.document_id of the record upload_pdf stores under a chunk id
DocOf(chunk_id) ==
    IF chunk_id \in {"d2_chunk_0", "d2_chunk_1", "d2_chunk_2", "d2_chunk_3"}
    THEN "d2" ELSE "d1"

VARIABLES
    index,            \* vector index: set of [id, user_id] entries
    chunks,           \* ids of the ContentChunk rows present in the store
    documents,        \* ids of the Document rows present in the store
    pc,               \* position of the request being served
    request,          \* [op, user_id, top_k, include_sources, questions]
    qi,               \* multi_query_rag: position in questions
    query_embedding,  \* embedding of the current question, <<>> before
    vector_results,   \* hits of the last index query
    index_calls,      \* index queries issued by the current search
    search_results,   \* list returned by semantic_search
    searched,         \* semantic_search has returned
    context,          \* _build_context output: [context_parts, sources]
    phases,           \* orchestrator states entered by the current question
    generator_calls,  \* model-provider calls made for the current question
    llm_request,      \* arguments of the model-provider call, <<>> before
    result,           \* value returned by answer_question, <<>> or <<r>>
    error,            \* exception raised for the current question, <<>> or <<e>>
    outcome,          \* what the caller of the operation observes
    answers,          \* multi_query_rag: entries so far
    answer_stream,    \* iterator answer_question_stream returned
    events,           \* server-sent events emitted by generate_response
    fragments,        \* fragments yielded by the answer stream
    pulled,           \* chunks pulled from the provider's stream
    aborted_at,       \* value of pulled when the consumer aborted, -1 before
    chunker,          \* one call of TextChunker.chunk_pages
    embedder,         \* one call of EmbeddingService.generate_embeddings_batch
    scoring,          \* one evaluation of a scoring or context helper
    docop,            \* one call of a document route: summarize, upload, delete
    tasks             \* questions in flight at the same time, by task

\* what a request being served leaves alone: the stores and the calls of
\* the ingestion services and helpers
world == <<index, chunks, documents, chunker, embedder, scoring, docop,
          tasks>>
search_vars == <<query_embedding, vector_results, index_calls, search_results,
                 searched>>
answer_vars == <<context, phases, generator_calls, llm_request, result,
                 error>>
stream_vars == <<answer_stream, events, fragments, pulled, aborted_at>>
vars == <<index, chunks, documents, pc, request, qi, query_embedding,
          vector_results, index_calls, search_results, searched, context,
          phases, generator_calls, llm_request, result, error, outcome,
          answers,
          answer_stream, events, fragments, pulled, aborted_at, chunker,
          embedder, scoring, docop, tasks>>

\* everything the request being served owns
request_vars == <<pc, request, qi, search_vars, answer_vars, outcome, answers,
                  stream_vars>>

\* ----------------------------------------------------------- vector index
\* Raw distance (in hundredths) between a question's embedding and the
\* embedding stored for a chunk.
Distance(q, chunk_id) ==
    IF q = "q1"
    THEN CASE chunk_id = "d1_chunk_0" -> 0
           [] chunk_id = "d1_chunk_1" -> 50
           [] OTHER -> 400
    ELSE CASE chunk_id = "d1_chunk_0" -> 100
           [] chunk_id = "d1_chunk_1" -> 67
           [] OTHER -> 25

\* EmbeddingService.generate_embedding: the vector of a text
Embedding(q) == <<"embedding", q>>

RECURSIVE Nearest(_, _, _)
\* the n entries of S nearest to the embedding, ascending distance
Nearest(S, emb, n) ==
    IF S = {} \/ n = 0 THEN <<>>
    ELSE LET e == CHOOSE x \in S :
                    \A y \in S : Distance(emb[2], x.id) <= Distance(emb[2], y.id)
         IN <<[id |-> e.id, distance |-> Distance(emb[2], e.id),
               user_id |-> e.user_id]>>
            \o Nearest(S \ {e}, emb, n - 1)

\* variant: the where clause is dropped
VectorSearchIgnoringFilter(query_embedding_, n_results, filter_metadata) ==
    Nearest(index, query_embedding_, n_results)

\* VectorStore.search: collection.query(n_results, where)
VectorSearch(query_embedding_, n_results, filter_metadata) ==
    Nearest({e \in index : filter_metadata = NoFilter
                           \/ e.user_id = filter_metadata},
            query_embedding_, n_results)

\* ------------------------------------------------------- semantic_search
\* variants of the fallback test: retry when at most one hit came back,
\* never retry
FallbackOnFewHits(hits) == Len(hits) <= 1
\* variant: retry when no hit of the filtered query resolves in the store
FallbackWhenNoneResolves(hits) ==
    \A i \in 1..Len(hits) :
        hits[i].id \notin chunks \/ DocOf(hits[i].id) \notin documents
FallbackNever(hits) == FALSE

\* search.py:50 -- "if not vector_results['ids'] or len(ids[0]) == 0"
FallbackNeeded(hits) == Len(hits) = 0

\* variant: the document lookup of search.py:72-74 left out
ResolvableChunkOnly(chunk_id) == chunk_id \in chunks

\* search.py:68-74 -- the chunk row and the row of its document both exist
Resolvable(chunk_id) ==
    /\ chunk_id \in chunks
    /\ DocOf(chunk_id) \in documents

\* round(num / den): to the nearest integer, a tie to the even one
RoundHalfEven(num, den) ==
    LET q == num \div den
        r == num % den
    IN  IF 2 * r < den THEN q
        ELSE IF 2 * r > den THEN q + 1
        ELSE IF q % 2 = 0 THEN q ELSE q + 1

\* variant: the quotient cut off after four decimals instead of rounded
RelevanceScoreTruncated(distance) == 1000000 \div (100 + distance)

\* search.py:78,86 -- round(1 / (1 + distance), 4), in units of 0.0001,
\* the distance in hundredths
RelevanceScore(distance) == RoundHalfEven(1000000, 100 + distance)

\* A content is a sequence of characters; Content(seed, n) is a text of n
\* characters whose letters depend on the seed and on the position
Alphabet == <<"a", "b", "c", "d", "e">>
Content(seed, n) == [i \in 1..n |-> Alphabet[((i + seed) % 5) + 1]]

\* ContentChunk.content of the row stored under a chunk id
ChunkContent(chunk_id) ==
    CASE chunk_id = "d1_chunk_0" -> Content(0, 1)
      [] chunk_id = "d1_chunk_1" -> Content(1, 2)
      [] OTHER -> Content(2, 3)

\* search.py:80-92 -- the result built for a resolved hit
SearchResult(hit) ==
    [chunk_id |-> hit.id,
     document_id |-> DocOf(hit.id),
     content |-> ChunkContent(hit.id),
     relevance_score |-> RelevanceScore(hit.distance)]

RECURSIVE ProcessResultsPrepending(_)
\* variant: each result is put in front of the ones built before it
ProcessResultsPrepending(hits) ==
    IF hits = <<>> THEN <<>>
    ELSE ProcessResultsPrepending(Tail(hits))
         \o (IF Resolvable(Head(hits).id)
             THEN <<SearchResult(Head(hits))>> ELSE <<>>)

RECURSIVE ProcessResults(_)
\* search.py:58-96 -- the loop over the hits, stale hits skipped
ProcessResults(hits) ==
    IF hits = <<>> THEN <<>>
    ELSE (IF Resolvable(Head(hits).id)
          THEN <<SearchResult(Head(hits))>> ELSE <<>>)
         \o ProcessResults(Tail(hits))

\* the index query recorded by the model: what was sent to VectorStore.search
IndexCall(emb, n, filter) ==
    [query_embedding |-> emb, n_results |-> n, filter_metadata |-> filter]

\* ------------------------------------------------------------ RAGService
FallbackAnswer == "I couldn't find any relevant information"
LLMModel == "gpt-4-turbo-preview"
LLMAnswers == {"llm_answer"}
ZeroUsage == [prompt_tokens |-> 0, completion_tokens |-> 0, total_tokens |-> 0]
LLMUsage == [prompt_tokens |-> 3, completion_tokens |-> 2, total_tokens |-> 5]

\* variant: the empty-result branch is never taken
NoResultsNever(results) == FALSE

\* rag_service.py:53, 124 -- "if not search_results"
NoResults(results) == results = <<>>

\* variant: the fast path reports the confidence of a weak match
NoContextLowConfidence ==
    [answer |-> FallbackAnswer, sources |-> <<>>, context_used |-> 0,
     confidence |-> "low", model |-> LLMModel, usage |-> ZeroUsage]

\* rag_service.py:53-65 -- the NO_CONTEXT result
NoContextResult ==
    [answer |-> FallbackAnswer, sources |-> <<>>, context_used |-> 0,
     confidence |-> "none", model |-> LLMModel, usage |-> ZeroUsage]

\* rag_service.py:178 -- characters of the content a citation shows
PreviewLimit == 200
TruncationMarker == <<".", ".", ".">>

\* variant: a content of exactly 200 characters is marked as cut
ContentPreviewFromLimit(content) ==
    IF Len(content) >= PreviewLimit
    THEN SubSeq(content, 1, PreviewLimit) \o TruncationMarker
    ELSE content

\* rag_service.py:178 --
\* content[:200] + "..." if len(content) > 200 else content
ContentPreview(content) ==
    IF Len(content) > PreviewLimit
    THEN SubSeq(content, 1, PreviewLimit) \o TruncationMarker
    ELSE content

\* rag_service.py:170-179 -- the citation of the i-th result
Citation(i, r) ==
    [source_id |-> i, chunk_id |-> r.chunk_id, document_id |-> r.document_id,
     relevance_score |-> r.relevance_score,
     content_preview |-> ContentPreview(r.content)]

\* rag_service.py:165-168 -- the context block of the i-th result
ContextPart(i, r) == [label |-> i, content |-> r.content]

\* variant: enumerate(search_results) counting from 0
SourceOrdinalFromZero(position) == position - 1

\* rag_service.py:158 -- enumerate(search_results, 1)
SourceOrdinal(position) == position

\* rag_service.py:142-182 -- _build_context
BuildContext(results) ==
    [context_parts |-> [p \in 1..Len(results) |->
                           ContextPart(SourceOrdinal(p), results[p])],
     sources |-> [p \in 1..Len(results) |->
                     Citation(SourceOrdinal(p), results[p])]]

NoContext == [context_parts |-> <<>>, sources |-> <<>>]

\* rag_service.py:181 -- "\n---\n".join(context_parts)
Separator == [separator |-> "---"]
RECURSIVE ContextText(_)
ContextText(context_parts) ==
    IF context_parts = <<>> THEN <<>>
    ELSE IF Len(context_parts) = 1 THEN <<Head(context_parts)>>
    ELSE <<Head(context_parts), Separator>> \o ContextText(Tail(context_parts))

\* rag_service.py:71-76, 133-138 -- what the model provider is called with
LLMRequest(question, ctx) ==
    [question |-> question, context |-> ContextText(ctx.context_parts)]

\* variant: a weak best match is reported as no confidence at all
EstimateConfidenceNoneWhenWeak(results) ==
    IF results = <<>> \/ results[1].relevance_score < 6000 THEN "none"
    ELSE IF results[1].relevance_score >= 8000 THEN "high" ELSE "medium"

\* variant: the verdict is taken from the last result
EstimateConfidenceOfLast(results) ==
    IF results = <<>> THEN "none"
    ELSE IF results[Len(results)].relevance_score >= 8000 THEN "high"
    ELSE IF results[Len(results)].relevance_score >= 6000 THEN "medium"
    ELSE "low"

\* rag_service.py:184-205 -- _estimate_confidence
EstimateConfidence(results) ==
    IF results = <<>> THEN "none"
    ELSE IF results[1].relevance_score >= 8000 THEN "high"
    ELSE IF results[1].relevance_score >= 6000 THEN "medium"
    ELSE "low"

\* variant: context_used counts the citations the response shows
AnswerResultCountsSources(answer, results, ctx, include_sources) ==
    [answer |-> answer,
     sources |-> IF include_sources THEN ctx.sources ELSE <<>>,
     context_used |-> IF include_sources THEN Len(ctx.sources) ELSE 0,
     confidence |-> EstimateConfidence(results),
     model |-> LLMModel,
     usage |-> LLMUsage]

\* rag_service.py:78-86 -- the response answer_question packages
AnswerResult(answer, results, ctx, include_sources) ==
    [answer |-> answer,
     sources |-> IF include_sources THEN ctx.sources ELSE <<>>,
     context_used |-> Len(results),
     confidence |-> EstimateConfidence(results),
     model |-> LLMModel,
     usage |-> LLMUsage]

Question == request.questions[qi]

\* ------------------------------------------------------------ initial state
\* index entries carry distinct ids
IndexStates ==
    {S \in SUBSET [id : ChunkIds, user_id : Users] :
        \A a, b \in S : a.id = b.id => a = b}

Idle ==
    /\ pc = "idle"
    /\ request = [op |-> "none", user_id |-> "default_user", top_k |-> 1,
                  include_sources |-> TRUE, questions |-> <<>>]
    /\ qi = 0
    /\ query_embedding = <<>>
    /\ vector_results = <<>>
    /\ index_calls = <<>>
    /\ search_results = <<>>
    /\ searched = FALSE
    /\ context = NoContext
    /\ phases = <<>>
    /\ generator_calls = 0
    /\ llm_request = <<>>
    /\ result = <<>>
    /\ error = <<>>
    /\ outcome = "pending"
    /\ answers = <<>>
    /\ answer_stream = "none"
    /\ events = <<>>
    /\ fragments = <<>>
    /\ pulled = 0
    /\ aborted_at = -1

\* no call of an ingestion service or helper is under way
NotCalled == [pc |-> "idle"]

Init ==
    /\ index \in IndexStates
    /\ chunks \in SUBSET ChunkIds
    /\ documents \in SUBSET Docs
    /\ Idle
    /\ chunker = NotCalled
    /\ embedder = NotCalled
    /\ scoring = NotCalled
    /\ docop = NotCalled
    /\ tasks = <<>>

\* ------------------------------------------- leaving answer_question
\* multi_query_rag's entry for a question that raised (rag_service.py:240-247)
ErrorEntry(q, e) ==
    [question |-> q, answer |-> <<"Error processing question", e>>,
     sources |-> <<>>, error |-> TRUE]

\* multi_query_rag's entry for an answered question (rag_service.py:236-239)
AnswerEntry(q, r) ==
    [question |-> q, answer |-> r.answer, sources |-> r.sources,
     context_used |-> r.context_used, confidence |-> r.confidence,
     model |-> r.model, usage |-> r.usage]

\* variant: the batch lets the exception through
BatchHandlerPropagates(e) == "propagate"

\* rag_service.py:240 -- "except Exception" of multi_query_rag: what the
\* batch does with an exception of answer_question
BatchHandler(e) == "append_error_entry"

\* variant: a failed call is answered like an empty search
RaiseAsEmpty(e) ==
    /\ error' = <<e>>
    /\ result' = <<NoContextResult>>
    /\ pc' = "done"
    /\ outcome' = "http_200"
    /\ UNCHANGED answers

\* An exception leaves semantic_search / answer_question(_stream).
\* /ask and /ask/stream turn it into HTTP 500 (rag_routes.py:55-60, 129-134);
\* multi_query_rag catches it and appends an error entry.
Raise(e) ==
    /\ error' = <<e>>
    /\ UNCHANGED result
    /\ IF request.op = "multi"
       THEN IF BatchHandler(e) = "append_error_entry"
            THEN /\ answers' = Append(answers, ErrorEntry(Question, e))
                 /\ pc' = "loop"
                 /\ UNCHANGED outcome
            ELSE /\ pc' = "done"
                 /\ outcome' = "raised"
                 /\ UNCHANGED answers
       ELSE /\ pc' = "done"
            /\ outcome' = "http_500"
            /\ UNCHANGED answers

\* answer_question returns r
Return(r) ==
    /\ result' = <<r>>
    /\ UNCHANGED error
    /\ IF request.op = "multi"
       THEN /\ answers' = Append(answers, AnswerEntry(Question, r))
            /\ pc' = "loop"
            /\ UNCHANGED outcome
       ELSE /\ pc' = "done"
            /\ outcome' = "http_200"
            /\ UNCHANGED answers

\* answer_question goes on to its next external call
Continue(next_pc) ==
    /\ pc' = next_pc
    /\ UNCHANGED <<result, error, outcome, answers>>

\* ----------------------------------------------------------------- routes
\* the state of a question whose processing starts
BeginQuestion ==
    /\ query_embedding' = <<>>
    /\ vector_results' = <<>>
    /\ index_calls' = <<>>
    /\ search_results' = <<>>
    /\ searched' = FALSE
    /\ context' = NoContext
    /\ phases' = <<"RETRIEVING">>
    /\ generator_calls' = 0
    /\ llm_request' = <<>>
    /\ result' = <<>>
    /\ error' = <<>>

\* POST /ask (rag_routes.py:24-60) calls rag_service.answer_question
AskQuestion ==
    /\ pc = "idle"
    /\ \E q \in Questions, u \in Users, k \in TopKs, inc \in BOOLEAN :
         request' = [op |-> "ask", user_id |-> u, top_k |-> k,
                     include_sources |-> inc, questions |-> <<q>>]
    /\ qi' = 1
    /\ pc' = "embed"
    /\ BeginQuestion
    /\ UNCHANGED <<world, outcome, answers, stream_vars>>

\* search.py:40 -- self.embedder.generate_embedding(query)
GenerateEmbedding ==
    /\ pc = "embed"
    /\ \E ok \in BOOLEAN :
         IF ok
         THEN /\ query_embedding' = Embedding(Question)
              /\ Continue("search_filtered")
         ELSE /\ Raise("EmbeddingError")
              /\ UNCHANGED query_embedding
    /\ UNCHANGED <<world, request, qi, vector_results, index_calls,
                   search_results, searched, context, phases, generator_calls,
                   llm_request,
                   stream_vars>>

\* search.py:58-96 and what the orchestrator does with the list returned,
\* up to its next external call (rag_service.py:53-68, 124-140)
Conclude(hits) ==
    LET results == ProcessResults(hits) IN
    /\ vector_results' = hits
    /\ search_results' = results
    /\ searched' = TRUE
    /\ IF NoResults(results)
       THEN /\ context' = NoContext
            /\ phases' = Append(phases, "NO_CONTEXT")
            /\ IF request.op = "stream"
               THEN /\ answer_stream' = "empty_stream"
                    /\ pc' = "stream_sources"
                    /\ outcome' = "streaming"
                    /\ UNCHANGED <<result, error, answers>>
               ELSE /\ Return(NoContextResult)
                    /\ UNCHANGED answer_stream
       ELSE /\ context' = BuildContext(results)
            /\ phases' = Append(phases, "CONTEXT_ASSEMBLED")
            /\ IF request.op = "stream"
               THEN /\ answer_stream' = "generate_answer_stream"
                    /\ pc' = "stream_sources"
                    /\ outcome' = "streaming"
                    /\ UNCHANGED <<result, error, answers>>
               ELSE /\ Continue("generate")
                    /\ UNCHANGED answer_stream

\* search.py:42-56 -- the filtered query, user_id as the filter
SearchFiltered ==
    /\ pc = "search_filtered"
    /\ index_calls' = Append(index_calls,
           IndexCall(query_embedding, request.top_k, request.user_id))
    /\ \E ok \in BOOLEAN :
         IF ~ok
         THEN /\ Raise("IndexError")
              /\ UNCHANGED <<vector_results, search_results, searched,
                             context, phases, answer_stream>>
         ELSE LET hits == VectorSearch(query_embedding, request.top_k,
                                       request.user_id)
              IN IF FallbackNeeded(hits)
                 THEN /\ vector_results' = hits
                      /\ Continue("search_unfiltered")
                      /\ UNCHANGED <<search_results, searched, context, phases,
                                     answer_stream>>
                 ELSE Conclude(hits)
    /\ UNCHANGED <<world, request, qi, query_embedding, generator_calls,
                   llm_request,
                   events, fragments, pulled, aborted_at>>

\* search.py:51-56 -- the fallback query, filter_metadata=None
SearchUnfiltered ==
    /\ pc = "search_unfiltered"
    /\ index_calls' = Append(index_calls,
           IndexCall(query_embedding, request.top_k, NoFilter))
    /\ \E ok \in BOOLEAN :
         IF ~ok
         THEN /\ Raise("IndexError")
              /\ UNCHANGED <<vector_results, search_results, searched,
                             context, phases, answer_stream>>
         ELSE Conclude(VectorSearch(query_embedding, request.top_k, NoFilter))
    /\ UNCHANGED <<world, request, qi, query_embedding, generator_calls,
                   llm_request,
                   events, fragments, pulled, aborted_at>>

\* rag_service.py:70-89 -- llm_service.generate_answer and the response
GenerateAnswer ==
    /\ pc = "generate"
    /\ generator_calls' = generator_calls + 1
    /\ llm_request' = <<LLMRequest(Question, context)>>
    /\ \E ok \in BOOLEAN :
         IF ok
         THEN /\ \E a \in LLMAnswers :
                   Return(AnswerResult(a, search_results, context,
                                       request.include_sources))
              /\ phases' = phases \o <<"GENERATING", "DONE">>
         ELSE /\ Raise("ProviderError")
              /\ phases' = Append(phases, "GENERATING")
    /\ UNCHANGED <<world, request, qi, search_vars, context, stream_vars>>

\* ---------------------------------------------------------- /ask/stream
\* POST /ask/stream (rag_routes.py:63-90) calls answer_question_stream
AskQuestionStream ==
    /\ pc = "idle"
    /\ \E q \in Questions, u \in Users, k \in TopKs :
         request' = [op |-> "stream", user_id |-> u, top_k |-> k,
                     include_sources |-> TRUE, questions |-> <<q>>]
    /\ qi' = 1
    /\ pc' = "embed"
    /\ BeginQuestion
    /\ UNCHANGED <<world, outcome, answers, stream_vars>>

\* variant: only the first citation is sent
SourcesEventFirstOnly(sources) ==
    [type |-> "sources",
     data |-> [i \in 1..(IF sources = <<>> THEN 0 ELSE 1) |->
                 [source_id |-> sources[i].source_id,
                  relevance_score |-> sources[i].relevance_score]]]

\* rag_routes.py:94-107 -- the sources event, the fields it keeps
SourcesEvent(sources) ==
    [type |-> "sources",
     data |-> [i \in 1..Len(sources) |->
                 [source_id |-> sources[i].source_id,
                  relevance_score |-> sources[i].relevance_score]]]

\* rag_routes.py:110-115
AnswerEvent(chunk) == [type |-> "answer", data |-> chunk]

\* rag_routes.py:118
DoneEvent == [type |-> "done"]

\* llm_service.py:136 -- "if chunk.choices[0].delta.content is not None"
DeltaHasContent(delta) == delta # NoneDelta

\* variant: the handler logs and returns
StreamHandlerSwallows(e) == "swallow"

\* llm_service.py:139-141 -- "except Exception: log; raise" around the
\* provider call and the iteration of its stream
StreamHandler(e) == "reraise"

\* variant: the generator goes on iterating after the close
AfterCloseKeepsPulling == "stream_next"

\* llm_service.py:135-137 -- GeneratorExit arrives at the yield when the
\* consumer drops the stream: it is no Exception, the loop is left
AfterClose == "closed"

\* variant: generate_response goes to the answer stream at once
EmitSourcesSkipped ==
    /\ pc = "stream_sources"
    /\ pc' = "stream_yield"
    /\ UNCHANGED <<world, request, qi, search_vars, answer_vars, outcome,
                   answers, stream_vars>>

\* rag_routes.py:107 -- generate_response starts: the sources event
EmitSources ==
    /\ pc = "stream_sources"
    /\ events' = Append(events, SourcesEvent(context.sources))
    /\ pc' = "stream_yield"
    /\ UNCHANGED <<world, request, qi, search_vars, answer_vars, outcome,
                   answers, answer_stream, fragments, pulled, aborted_at>>

\* the answer stream ended: rag_routes.py:118 emits done, the response ends
StreamEnds ==
    /\ events' = Append(events, DoneEvent)
    /\ pc' = "done"
    /\ outcome' = "stream_complete"

\* an exception of the provider inside generate_answer_stream
StreamRaise(e) ==
    /\ error' = <<e>>
    /\ IF StreamHandler(e) = "reraise"
       THEN /\ pc' = "done"
            /\ outcome' = "stream_broken"
            /\ UNCHANGED events
       ELSE StreamEnds

\* variant: the empty stream carries a text of its own
EmptyStreamTextOfItsOwn == "No relevant documents"

\* rag_service.py:126 -- the text empty_stream yields, the literal of
\* rag_service.py:55
EmptyStreamText == FallbackAnswer

\* rag_service.py:124-127 -- empty_stream: one fragment, then exhausted
EmptyStreamNext ==
    /\ pc = "stream_yield"
    /\ answer_stream = "empty_stream"
    /\ IF fragments = <<>>
       THEN /\ fragments' = <<EmptyStreamText>>
            /\ events' = Append(events, AnswerEvent(EmptyStreamText))
            /\ UNCHANGED <<pc, outcome>>
       ELSE /\ StreamEnds
            /\ UNCHANGED fragments
    /\ UNCHANGED <<world, request, qi, search_vars, answer_vars, answers,
                   answer_stream, pulled, aborted_at>>

\* llm_service.py:108-133 -- the first pull runs the generator's body up to
\* client.chat.completions.create(stream=True)
StartGenerator ==
    /\ pc = "stream_yield"
    /\ answer_stream = "generate_answer_stream"
    /\ generator_calls = 0
    /\ generator_calls' = 1
    /\ llm_request' = <<LLMRequest(Question, context)>>
    /\ phases' = Append(phases, "GENERATING")
    /\ \E ok \in BOOLEAN :
         IF ok
         THEN /\ pc' = "stream_next"
              /\ UNCHANGED <<error, outcome, events>>
         ELSE StreamRaise("ProviderError")
    /\ UNCHANGED <<world, request, qi, search_vars, context, result, answers,
                   answer_stream, fragments, pulled, aborted_at>>

\* llm_service.py:135-137 -- one chunk of the provider's stream
ProviderNext ==
    /\ pc \in {"stream_yield", "stream_next"}
    /\ answer_stream = "generate_answer_stream"
    /\ generator_calls = 1
    /\ \/ /\ pulled < MaxFragments
          /\ \E delta \in Deltas \cup {NoneDelta} :
               /\ pulled' = pulled + 1
               /\ IF DeltaHasContent(delta)
                  THEN /\ fragments' = Append(fragments, delta)
                       /\ events' = Append(events, AnswerEvent(delta))
                       /\ pc' = "stream_yield"
                  ELSE /\ pc' = "stream_next"
                       /\ UNCHANGED <<fragments, events>>
          /\ UNCHANGED <<phases, error, outcome>>
       \/ /\ StreamEnds
          /\ phases' = Append(phases, "DONE")
          /\ UNCHANGED <<fragments, pulled, error>>
       \/ /\ StreamRaise("ProviderError")
          /\ UNCHANGED <<fragments, pulled, phases>>
    /\ UNCHANGED <<world, request, qi, search_vars, context, generator_calls,
                   llm_request,
                   result, answers, answer_stream, aborted_at>>

\* the consumer drops the connection while generate_response is suspended
\* at a yield: the generators are closed
ConsumerAbort ==
    /\ pc = "stream_yield"
    /\ aborted_at = -1
    /\ aborted_at' = pulled
    /\ outcome' = "stream_aborted"
    /\ pc' = AfterClose
    /\ UNCHANGED <<world, request, qi, search_vars, answer_vars, answers,
                   answer_stream, events, fragments, pulled>>

\* -------------------------------------------------------- multi_query_rag
QuestionLists ==
    UNION {[1..n -> Questions] : n \in 0..MaxQuestions}

\* rag_service.py:207-226 -- multi_query_rag(questions, db, top_k, user_id)
MultiQueryRag ==
    /\ pc = "idle"
    /\ \E qs \in QuestionLists, u \in Users, k \in TopKs :
         request' = [op |-> "multi", user_id |-> u, top_k |-> k,
                     include_sources |-> TRUE, questions |-> qs]
    /\ qi' = 0
    /\ pc' = "loop"
    /\ UNCHANGED <<world, search_vars, answer_vars, outcome, answers,
                   stream_vars>>

\* rag_service.py:228-249 -- "for question in questions", "return answers"
LoopNext ==
    /\ pc = "loop"
    /\ IF qi < Len(request.questions)
       THEN /\ qi' = qi + 1
            /\ pc' = "embed"
            /\ BeginQuestion
            /\ UNCHANGED outcome
       ELSE /\ pc' = "done"
            /\ outcome' = "returned"
            /\ UNCHANGED <<qi, search_vars, answer_vars>>
    /\ UNCHANGED <<world, request, answers, stream_vars>>

\* ------------------------------------------------------- specifications
Search ==
    \/ GenerateEmbedding
    \/ SearchFiltered
    \/ SearchUnfiltered

Streaming ==
    \/ EmitSources
    \/ EmptyStreamNext
    \/ StartGenerator
    \/ ProviderNext
    \/ ConsumerAbort

Next ==
    \/ AskQuestion
    \/ AskQuestionStream
    \/ Search
    \/ GenerateAnswer
    \/ Streaming

Spec == Init /\ [][Next]_vars

\* the index as upload_pdf fills it: every document is default_user's;
\* both document rows are stored, or d2's is gone
InitBatch ==
    /\ index = [id : ChunkIds, user_id : {"default_user"}]
    /\ chunks \in SUBSET ChunkIds
    /\ documents \in {Docs, {"d1"}}
    /\ Idle
    /\ chunker = NotCalled
    /\ embedder = NotCalled
    /\ scoring = NotCalled
    /\ docop = NotCalled
    /\ tasks = <<>>

NextBatch ==
    \/ MultiQueryRag
    \/ LoopNext
    \/ Search
    \/ GenerateAnswer

SpecBatch == InitBatch /\ [][NextBatch]_vars

\* ------------------------------------------------ TextChunker.chunk_pages
\* A text is a sequence of characters: 0 is a whitespace character, a
\* positive number a word.  The words of page p are 10 * p + 1, 10 * p + 2,
\* so that a piece of text tells which page it was cut from.
Whitespace == 0
TextShapes == {<<>>, <<0>>, <<1>>, <<0, 1, 0, 2>>}
PageText(shape, p) ==
    [i \in 1..Len(shape) |->
        IF shape[i] = Whitespace THEN Whitespace ELSE 10 * p + shape[i]]
OriginPage(text) == text[1] \div 10

\* str.strip()
RECURSIVE LStrip(_)
LStrip(text) ==
    IF text # <<>> /\ Head(text) = Whitespace THEN LStrip(Tail(text)) ELSE text
RECURSIVE RStrip(_)
RStrip(text) ==
    IF text # <<>> /\ text[Len(text)] = Whitespace
    THEN RStrip(SubSeq(text, 1, Len(text) - 1))
    ELSE text
Strip(text) == LStrip(RStrip(text))

\* self.splitter.split_text: the recursive splitter cuts at whitespace and
\* returns the non-empty pieces in text order; here a piece is one word
RECURSIVE SplitText(_)
SplitText(text) ==
    IF text = <<>> THEN <<>>
    ELSE IF Head(text) = Whitespace THEN SplitText(Tail(text))
    ELSE <<(<<Head(text)>>)>> \o SplitText(Tail(text))

\* self._token_length
TokenLength(text) == Len(text)

\* pages_data as extract_text_with_pages numbers it (pdf_processor.py:81-87)
RECURSIVE PageLists(_)
PageLists(n) ==
    IF n = 0 THEN {<<>>}
    ELSE LET shorter == PageLists(n - 1)
         IN shorter \cup
            {Append(ps, [page_number |-> n, text |-> PageText(sh, n)]) :
                ps \in {l \in shorter : Len(l) = n - 1}, sh \in TextShapes}

\* `if not page_text.strip()`
BlankPage(page_text) == Strip(page_text) = <<>>

\* chunk_index of the k-th chunk of a page, the counter being chunk_index
\* when the page is reached
ChunkIndexPerPage(chunk_index, k) == k - 1
ChunkIndexAt(chunk_index, k) == chunk_index + k - 1

\* page_number the chunks of the page at position pos record
ChunkPageNumberOfFirst(pages_data, pos) == pages_data[1].page_number
ChunkPageNumber(pages_data, pos) == pages_data[pos].page_number

\* the chunks the inner loop appends for one page
PageChunks(pages_data, pos, chunk_index) ==
    LET text_chunks == SplitText(pages_data[pos].text)
        page_number == ChunkPageNumber(pages_data, pos)
    IN  [k \in 1..Len(text_chunks) |->
            [content |-> text_chunks[k],
             chunk_index |-> ChunkIndexAt(chunk_index, k),
             page_number |-> page_number,
             token_count |-> TokenLength(text_chunks[k]),
             metadata |-> [page_number |-> page_number,
                           char_count |-> Len(text_chunks[k])]]]

ChunkerCalls ==
    {[pc |-> "loop", pages_data |-> ps, page |-> 1, all_chunks |-> <<>>,
      chunk_index |-> 0, skipped |-> {}] : ps \in PageLists(MaxPages)}

\* one iteration of `for page_data in pages_data`
ChunkPage ==
    /\ chunker.pc = "loop"
    /\ chunker.page <= Len(chunker.pages_data)
    /\ LET page_data == chunker.pages_data[chunker.page]
       IN  IF BlankPage(page_data.text)
           THEN chunker' = [chunker EXCEPT
                    !.page = @ + 1,
                    !.skipped = @ \cup {page_data.page_number}]
           ELSE LET new == PageChunks(chunker.pages_data, chunker.page,
                                      chunker.chunk_index)
                IN  chunker' = [chunker EXCEPT
                        !.page = @ + 1,
                        !.all_chunks = @ \o new,
                        !.chunk_index = @ + Len(new)]
    /\ UNCHANGED <<index, chunks, documents, docop, tasks,
                   embedder, scoring, pc, request,
                   qi, search_vars, answer_vars, outcome, answers,
                   stream_vars>>

\* `return all_chunks`
ChunkPagesReturn ==
    /\ chunker.pc = "loop"
    /\ chunker.page > Len(chunker.pages_data)
    /\ chunker' = [chunker EXCEPT !.pc = "returned"]
    /\ UNCHANGED <<index, chunks, documents, docop, tasks,
                   embedder, scoring, pc, request,
                   qi, search_vars, answer_vars, outcome, answers,
                   stream_vars>>

InitChunker ==
    /\ index = {}
    /\ chunks = {}
    /\ documents = {}
    /\ Idle
    /\ chunker \in ChunkerCalls
    /\ embedder = NotCalled
    /\ scoring = NotCalled
    /\ docop = NotCalled
    /\ tasks = <<>>

NextChunker ==
    \/ ChunkPage
    \/ ChunkPagesReturn

SpecChunker == InitChunker /\ [][NextChunker]_vars

\* ------------------------- EmbeddingService.generate_embeddings_batch
Texts == {"t1", "t2"}
BatchSizes == 1..MaxBatchSize

RECURSIVE TextLists(_)
TextLists(n) ==
    IF n = 0 THEN {<<>>}
    ELSE LET shorter == TextLists(n - 1)
         IN shorter \cup
            {Append(ts, t) : ts \in {l \in shorter : Len(l) = n - 1},
                             t \in Texts}

Min(a, b) == IF a <= b THEN a ELSE b

\* texts[i:i + batch_size], i counted from 0
BatchDropsLast(texts, i, batch_size) ==
    SubSeq(texts, i + 1, Min(i + batch_size - 1, Len(texts)))
Batch(texts, i, batch_size) ==
    SubSeq(texts, i + 1, Min(i + batch_size, Len(texts)))

\* [item.embedding for item in response.data]: the provider answers a batch
\* with one vector per input, in input order
BatchEmbeddings(batch) == [k \in 1..Len(batch) |-> Embedding(batch[k])]

\* `except Exception as e: ...; raise`
EmbedHandlerNextBatch(e) == "continue"
EmbedHandler(e) == "reraise"

EmbedderCalls ==
    {[pc |-> "loop", texts |-> ts, batch_size |-> b, i |-> 0,
      all_embeddings |-> <<>>, requests |-> <<>>, failed_batch |-> 0,
      returned |-> <<>>] : ts \in TextLists(MaxTexts), b \in BatchSizes}

\* one iteration of `for i in range(0, len(texts), batch_size)` whose
\* provider call returns
EmbedBatch ==
    /\ embedder.pc = "loop"
    /\ embedder.i < Len(embedder.texts)
    /\ LET batch == Batch(embedder.texts, embedder.i, embedder.batch_size)
       IN  embedder' = [embedder EXCEPT
               !.requests = Append(@, batch),
               !.all_embeddings = @ \o BatchEmbeddings(batch),
               !.i = @ + embedder.batch_size]
    /\ UNCHANGED <<index, chunks, documents, docop, tasks,
                   chunker, scoring, pc, request,
                   qi, search_vars, answer_vars, outcome, answers,
                   stream_vars>>

\* one iteration whose provider call raises
EmbedBatchFails ==
    /\ embedder.pc = "loop"
    /\ embedder.i < Len(embedder.texts)
    /\ LET batch == Batch(embedder.texts, embedder.i, embedder.batch_size)
           sent == [embedder EXCEPT
                       !.requests = Append(@, batch),
                       !.failed_batch = Len(embedder.requests) + 1]
       IN  IF EmbedHandler("ProviderError") = "reraise"
           THEN embedder' = [sent EXCEPT !.pc = "raised"]
           ELSE embedder' = [sent EXCEPT !.i = @ + embedder.batch_size]
    /\ UNCHANGED <<index, chunks, documents, docop, tasks,
                   chunker, scoring, pc, request,
                   qi, search_vars, answer_vars, outcome, answers,
                   stream_vars>>

\* `return all_embeddings`
EmbedReturn ==
    /\ embedder.pc = "loop"
    /\ embedder.i >= Len(embedder.texts)
    /\ embedder' = [embedder EXCEPT
           !.pc = "returned",
           !.returned = <<embedder.all_embeddings>>]
    /\ UNCHANGED <<index, chunks, documents, docop, tasks,
                   chunker, scoring, pc, request,
                   qi, search_vars, answer_vars, outcome, answers,
                   stream_vars>>

InitEmbedder ==
    /\ index = {}
    /\ chunks = {}
    /\ documents = {}
    /\ Idle
    /\ chunker = NotCalled
    /\ embedder \in EmbedderCalls
    /\ scoring = NotCalled
    /\ docop = NotCalled
    /\ tasks = <<>>

NextEmbedder ==
    \/ EmbedBatch
    \/ EmbedBatchFails
    \/ EmbedReturn

SpecEmbedder == InitEmbedder /\ [][NextEmbedder]_vars

\* ------------------------------------- scoring and context helpers
\* result lists handed to the helpers of RAGService
RECURSIVE ListsOver(_, _)
ListsOver(S, n) ==
    IF n = 0 THEN {<<>>}
    ELSE LET shorter == ListsOver(S, n - 1)
         IN shorter \cup
            {Append(l, x) : l \in {m \in shorter : Len(m) = n - 1}, x \in S}

Seed(chunk_id) ==
    CASE chunk_id = "d1_chunk_0" -> 0
      [] chunk_id = "d1_chunk_1" -> 1
      [] OTHER -> 2

ResultOf(chunk_id, content_len, score) ==
    [chunk_id |-> chunk_id, document_id |-> DocOf(chunk_id),
     content |-> Content(Seed(chunk_id), content_len),
     relevance_score |-> score]

\* relevance scores on both sides of the two thresholds
ScoreSamples == {1, 5900, 5999, 6000, 7999, 8000, 8100, 10000}
ScoredResults == {ResultOf("d1_chunk_0", 1, sc) : sc \in ScoreSamples}

\* contents shorter than, as long as and longer than the preview
ContentLengths == {150, 200, 250}
ContentResults ==
    {ResultOf(c, n, 8000) : c \in ChunkIds, n \in ContentLengths}

\* a call of one of the helpers, not yet evaluated
DistanceCall(ds) ==
    [pc |-> "call", fn |-> "relevance_score", distances |-> ds,
     value |-> <<>>]
ResultsCall(fn, rs) ==
    [pc |-> "call", fn |-> fn, results |-> rs, value |-> <<>>]

\* search.py:78,86 applied to each distance of the answer
ConvertDistances ==
    /\ scoring.pc = "call"
    /\ scoring.fn = "relevance_score"
    /\ scoring' = [scoring EXCEPT
           !.pc = "returned",
           !.value = <<[k \in 1..Len(scoring.distances) |->
                           RelevanceScore(scoring.distances[k])]>>]
    /\ UNCHANGED <<index, chunks, documents, docop, tasks,
                   chunker, embedder, pc, request,
                   qi, search_vars, answer_vars, outcome, answers,
                   stream_vars>>

\* _estimate_confidence(search_results)
EstimateConfidenceCall ==
    /\ scoring.pc = "call"
    /\ scoring.fn = "estimate_confidence"
    /\ scoring' = [scoring EXCEPT
           !.pc = "returned",
           !.value = <<EstimateConfidence(scoring.results)>>]
    /\ UNCHANGED <<index, chunks, documents, docop, tasks,
                   chunker, embedder, pc, request,
                   qi, search_vars, answer_vars, outcome, answers,
                   stream_vars>>

\* _build_context(search_results)
BuildContextCall ==
    /\ scoring.pc = "call"
    /\ scoring.fn = "build_context"
    /\ scoring' = [scoring EXCEPT
           !.pc = "returned",
           !.value = <<BuildContext(scoring.results)>>]
    /\ UNCHANGED <<index, chunks, documents, docop, tasks,
                   chunker, embedder, pc, request,
                   qi, search_vars, answer_vars, outcome, answers,
                   stream_vars>>

InitScoring ==
    /\ index = {}
    /\ chunks = {}
    /\ documents = {}
    /\ Idle
    /\ chunker = NotCalled
    /\ embedder = NotCalled
    /\ \/ \E d1 \in 0..MaxDistance : \E d2 \in d1..MaxDistance :
              \* raw distances of one index answer, ascending (hundredths)
              scoring = DistanceCall(<<d1, d2>>)
       \/ \E rs \in ListsOver(ScoredResults, MaxResults) :
              scoring = ResultsCall("estimate_confidence", rs)
       \/ \E rs \in ListsOver(ContentResults, MaxResults) :
              scoring = ResultsCall("build_context", rs)
       \/ \E n \in 0..MaxContentLen :
              scoring = ResultsCall("build_context",
                                    <<ResultOf("d1_chunk_1", n, 8000)>>)
    /\ docop = NotCalled
    /\ tasks = <<>>

NextScoring ==
    \/ ConvertDistances
    \/ EstimateConfidenceCall
    \/ BuildContextCall

SpecScoring == InitScoring /\ [][NextScoring]_vars

\* ------------------------------------ RAGService.get_document_summary
\* rag_service.py:279 -- chunks[:20]
SummaryChunkLimit == 20

\* ContentChunk rows as the summary sees them: a row's content names the
\* document and the position the text was cut from
ChunkRow(document_id, chunk_index) ==
    [document_id |-> document_id, chunk_index |-> chunk_index,
     content |-> [text_of |-> <<document_id, chunk_index>>]]
RowsOf(document_id, m) == {ChunkRow(document_id, i) : i \in 0..(m - 1)}

\* .filter(ContentChunk.document_id == document_id)
\* .order_by(ContentChunk.chunk_index).all()
RECURSIVE OrderByChunkIndex(_)
OrderByChunkIndex(rows) ==
    IF rows = {} THEN <<>>
    ELSE LET first == CHOOSE r \in rows :
                          \A o \in rows : r.chunk_index <= o.chunk_index
         IN  <<first>> \o OrderByChunkIndex(rows \ {first})
DocumentChunks(rows, document_id) ==
    OrderByChunkIndex({r \in rows : r.document_id = document_id})

\* variant: every chunk of the document is passed on
SummaryChunksAll(document_chunks) == document_chunks

\* rag_service.py:279 -- chunks[:20]
SummaryChunks(document_chunks) ==
    SubSeq(document_chunks, 1, Min(Len(document_chunks), SummaryChunkLimit))

\* " ".join([chunk.content for chunk in ...])
Blank == [separator |-> " "]
RECURSIVE JoinContents(_)
JoinContents(document_chunks) ==
    IF document_chunks = <<>> THEN <<>>
    ELSE IF Len(document_chunks) = 1 THEN <<Head(document_chunks).content>>
    ELSE <<Head(document_chunks).content, Blank>>
         \o JoinContents(Tail(document_chunks))

\* rag_service.py:284-290
SummaryResult(document_id, summary, document_chunks) ==
    [document_id |-> document_id, summary |-> summary,
     chunks_analyzed |-> Min(Len(document_chunks), SummaryChunkLimit)]

SummarizeCall(document_id, rows) ==
    [op |-> "summarize", pc |-> "call", document_id |-> document_id,
     rows |-> rows, summarizer_input |-> <<>>, result |-> <<>>, status |-> 0]

\* POST /summarize up to the provider call of summarize_text
\* (rag_routes.py:199-211, rag_service.py:269-282)
SummarizeDocument ==
    /\ docop.pc = "call"
    /\ docop.op = "summarize"
    /\ IF docop.document_id \notin documents
       THEN docop' = [docop EXCEPT !.pc = "done", !.status = 404]
       ELSE docop' = [docop EXCEPT
                !.pc = "summarizing",
                !.summarizer_input =
                    <<JoinContents(SummaryChunks(
                          DocumentChunks(docop.rows, docop.document_id)))>>]
    /\ UNCHANGED <<index, chunks, documents, chunker, embedder, scoring, tasks,
                   request_vars>>

\* the provider call of summarize_text returns or raises
\* (llm_service.py:203-214, rag_routes.py:205, 212-217)
SummarizerReturns ==
    /\ docop.pc = "summarizing"
    /\ \E ok \in BOOLEAN :
         IF ok
         THEN docop' = [docop EXCEPT
                  !.pc = "done", !.status = 200,
                  !.result = <<SummaryResult(docop.document_id, "summary",
                                 DocumentChunks(docop.rows,
                                                docop.document_id))>>]
         ELSE docop' = [docop EXCEPT !.pc = "done", !.status = 500]
    /\ UNCHANGED <<index, chunks, documents, chunker, embedder, scoring, tasks,
                   request_vars>>

InitSummary ==
    /\ index = {}
    /\ chunks = {}
    /\ documents \in SUBSET Docs
    /\ Idle
    /\ chunker = NotCalled
    /\ embedder = NotCalled
    /\ scoring = NotCalled
    /\ tasks = <<>>
    /\ \E d \in Docs, other \in Docs, m \in 0..MaxChunks, k \in 0..1 :
          /\ other # d
          /\ docop = SummarizeCall(d, RowsOf(d, m) \cup RowsOf(other, k))

NextSummary ==
    \/ SummarizeDocument
    \/ SummarizerReturns

SpecSummary == InitSummary /\ [][NextSummary]_vars

\* --------------------------------------------- questions in flight
\* Several calls of answer_question / answer_question_stream are under way
\* at once and take turns at their external calls.  tasks.calls[t] is what
\* the caller of task t holds (its request, how far it is, what it got
\* back); tasks.frames[f] holds the arguments and local variables of a call.
TaskIds == 1..MaxTasks
TaskOps == {"ask", "stream"}
TaskTopK == 2

\* variant: arguments and locals are kept on the service singleton
FrameOnService(t) == 1

\* rag_service.py:18-51, search.py:19-47 -- each call has its own activation
\* record; RAGService and SearchService keep nothing of a call on self
FrameOf(t) == t

NoFrame ==
    [question |-> "", user_id |-> "", top_k |-> 0, query_embedding |-> <<>>,
     search_results |-> <<>>, context |-> NoContext, llm_request |-> <<>>]

TaskRequests == [op : TaskOps, question : Questions, user_id : Users]

MyFrame(t) == tasks.frames[FrameOf(t)]
TaskAt(t, where) == t \in DOMAIN tasks.calls /\ tasks.calls[t].pc = where

\* the frame and the caller's side of task t after a step
Step(t, frame, call) ==
    tasks' = [calls |-> [tasks.calls EXCEPT ![t] = call],
              frames |-> [tasks.frames EXCEPT ![FrameOf(t)] = frame]]

\* the route calls the orchestrator with the fields of its request
\* (rag_routes.py:44-51, 82-88): the parameters are bound, no local is
\* assigned yet
TaskCall(t) ==
    /\ TaskAt(t, "start")
    /\ Step(t,
            [MyFrame(t) EXCEPT !.question = tasks.calls[t].request.question,
                            !.user_id = tasks.calls[t].request.user_id,
                            !.top_k = TaskTopK],
            [tasks.calls[t] EXCEPT !.pc = "embed"])
    /\ UNCHANGED <<index, chunks, documents, chunker, embedder, scoring, docop,
                   request_vars>>

\* search.py:40
TaskEmbed(t) ==
    /\ TaskAt(t, "embed")
    /\ Step(t,
            [MyFrame(t) EXCEPT
                !.query_embedding = Embedding(MyFrame(t).question)],
            [tasks.calls[t] EXCEPT !.pc = "search_filtered"])
    /\ UNCHANGED <<index, chunks, documents, chunker, embedder, scoring, docop,
                   request_vars>>

\* search.py:58-96 and rag_service.py:53-68, 124-131 for the hits of the
\* last index query
TaskConclude(t, hits) ==
    LET results == ProcessResults(hits)
        op == tasks.calls[t].request.op
    IN  IF NoResults(results)
        THEN IF op = "ask"
             THEN Step(t, [MyFrame(t) EXCEPT !.search_results = results],
                       [tasks.calls[t] EXCEPT
                           !.pc = "done", !.result = <<NoContextResult>>])
             ELSE Step(t, [MyFrame(t) EXCEPT !.search_results = results],
                       [tasks.calls[t] EXCEPT !.pc = "stream_sources"])
        ELSE Step(t, [MyFrame(t) EXCEPT !.search_results = results,
                                        !.context = BuildContext(results)],
                  [tasks.calls[t] EXCEPT
                      !.pc = IF op = "ask" THEN "generate"
                             ELSE "stream_sources"])

\* search.py:43-50
TaskSearchFiltered(t) ==
    /\ TaskAt(t, "search_filtered")
    /\ LET hits == VectorSearch(MyFrame(t).query_embedding, MyFrame(t).top_k,
                                MyFrame(t).user_id)
       IN  IF FallbackNeeded(hits)
           THEN Step(t, MyFrame(t),
                     [tasks.calls[t] EXCEPT !.pc = "search_unfiltered"])
           ELSE TaskConclude(t, hits)
    /\ UNCHANGED <<index, chunks, documents, chunker, embedder, scoring, docop,
                   request_vars>>

\* search.py:51-56
TaskSearchUnfiltered(t) ==
    /\ TaskAt(t, "search_unfiltered")
    /\ TaskConclude(t, VectorSearch(MyFrame(t).query_embedding,
                                    MyFrame(t).top_k, NoFilter))
    /\ UNCHANGED <<index, chunks, documents, chunker, embedder, scoring, docop,
                   request_vars>>

\* rag_service.py:70-89
TaskGenerate(t) ==
    /\ TaskAt(t, "generate")
    /\ \E a \in LLMAnswers :
         Step(t,
              [MyFrame(t) EXCEPT !.llm_request =
                  <<LLMRequest(MyFrame(t).question, MyFrame(t).context)>>],
              [tasks.calls[t] EXCEPT
                  !.pc = "done",
                  !.result = <<AnswerResult(a, MyFrame(t).search_results,
                                            MyFrame(t).context, TRUE)>>])
    /\ UNCHANGED <<index, chunks, documents, chunker, embedder, scoring, docop,
                   request_vars>>

\* rag_routes.py:94-107
TaskStreamSources(t) ==
    /\ TaskAt(t, "stream_sources")
    /\ Step(t, MyFrame(t),
            [tasks.calls[t] EXCEPT
                !.pc = "stream_answer",
                !.events = <<SourcesEvent(MyFrame(t).context.sources)>>])
    /\ UNCHANGED <<index, chunks, documents, chunker, embedder, scoring, docop,
                   request_vars>>

\* rag_routes.py:110-118 -- the answer stream: the fixed text, or what the
\* provider sends for this call's question and context
TaskStreamAnswer(t) ==
    /\ TaskAt(t, "stream_answer")
    /\ IF NoResults(MyFrame(t).search_results)
       THEN Step(t, MyFrame(t),
                 [tasks.calls[t] EXCEPT
                     !.pc = "done",
                     !.events = @ \o <<AnswerEvent(FallbackAnswer),
                                       DoneEvent>>])
       ELSE \E a \in LLMAnswers :
              Step(t,
                   [MyFrame(t) EXCEPT !.llm_request =
                       <<LLMRequest(MyFrame(t).question,
                                    MyFrame(t).context)>>],
                   [tasks.calls[t] EXCEPT
                       !.pc = "done",
                       !.events = @ \o <<AnswerEvent(a), DoneEvent>>])
    /\ UNCHANGED <<index, chunks, documents, chunker, embedder, scoring, docop,
                   request_vars>>

\* two users' chunks in the index, or default_user's only
InitTasks ==
    /\ index \in {{[id |-> "d1_chunk_0", user_id |-> "default_user"],
                   [id |-> "d1_chunk_1", user_id |-> "alice"],
                   [id |-> "d2_chunk_0", user_id |-> "default_user"]},
                  [id : ChunkIds, user_id : {"default_user"}]}
    /\ chunks = ChunkIds
    /\ documents = Docs
    /\ Idle
    /\ chunker = NotCalled
    /\ embedder = NotCalled
    /\ scoring = NotCalled
    /\ docop = NotCalled
    /\ \E reqs \in [TaskIds -> TaskRequests] :
          tasks = [calls |-> [t \in TaskIds |->
                                 [request |-> reqs[t], pc |-> "start",
                                  result |-> <<>>, events |-> <<>>]],
                   frames |-> [t \in TaskIds |-> NoFrame]]

NextTasks ==
    \E t \in TaskIds :
        \/ TaskCall(t)
        \/ TaskEmbed(t)
        \/ TaskSearchFiltered(t)
        \/ TaskSearchUnfiltered(t)
        \/ TaskGenerate(t)
        \/ TaskStreamSources(t)
        \/ TaskStreamAnswer(t)

SpecTasks == InitTasks /\ [][NextTasks]_vars

\* ------------------------------------- upload_pdf and delete_document
\* routes.py:122 -- f"{document.id}_chunk_{i}"
UploadChunkId(document_id, i) ==
    IF document_id = "d1"
    THEN CASE i = 0 -> "d1_chunk_0" [] i = 1 -> "d1_chunk_1"
           [] i = 2 -> "d1_chunk_2" [] OTHER -> "d1_chunk_3"
    ELSE CASE i = 0 -> "d2_chunk_0" [] i = 1 -> "d2_chunk_1"
           [] i = 2 -> "d2_chunk_2" [] OTHER -> "d2_chunk_3"

\* chunk ids of a document that was uploaded before the call under way
StoredChunkIds(document_id) == {c \in ChunkIds : DocOf(c) = document_id}

\* chunk_pages as a whole: the chunks of the pages from position pos on,
\* the counter being chunk_index
RECURSIVE ChunkPagesFrom(_, _, _)
ChunkPagesFrom(pages_data, pos, chunk_index) ==
    IF pos > Len(pages_data) THEN <<>>
    ELSE IF BlankPage(pages_data[pos].text)
    THEN ChunkPagesFrom(pages_data, pos + 1, chunk_index)
    ELSE LET new == PageChunks(pages_data, pos, chunk_index)
         IN  new \o ChunkPagesFrom(pages_data, pos + 1,
                                   chunk_index + Len(new))

\* files whose chunking yields at most MaxUploadChunks chunks
UploadPages ==
    {ps \in PageLists(MaxPages) :
        Len(ChunkPagesFrom(ps, 1, 0)) <= MaxUploadChunks}

\* variant: the chunk id is numbered from 1
UploadRecordFromOne(document_id, i, chunk) ==
    [id |-> UploadChunkId(document_id, i + 1), document_id |-> document_id,
     chunk_index |-> chunk.chunk_index, content |-> chunk.content,
     embedding_id |-> UploadChunkId(document_id, i + 1)]

\* routes.py:121-135 -- the ContentChunk record of the i-th chunk, i from 0
UploadRecord(document_id, i, chunk) ==
    [id |-> UploadChunkId(document_id, i), document_id |-> document_id,
     chunk_index |-> chunk.chunk_index, content |-> chunk.content,
     embedding_id |-> UploadChunkId(document_id, i)]

\* routes.py:121 -- enumerate(zip(chunks, embeddings))
UploadRecords(document_id, upload_chunks, embeddings) ==
    [p \in 1..Min(Len(upload_chunks), Len(embeddings)) |->
        UploadRecord(document_id, p - 1, upload_chunks[p])]

\* variant: rows flushed in the session survive the rollback
RollbackKeepsFlushed(committed, flushed) == committed \cup flushed

\* db.rollback(): the committed rows stay, flushed rows are discarded
Rollback(committed, flushed) == committed

\* variant: the index is left as it is
IndexUntouched(entries, document_id) == entries

\* vector_store.py:79-81 -- collection.delete(where={"document_id": ...})
IndexWithout(entries, document_id) ==
    {e \in entries : DocOf(e.id) # document_id}

\* models.py:32 -- cascade="all, delete-orphan"
CascadeChunks(chunk_ids, document_id) ==
    {c \in chunk_ids : DocOf(c) # document_id}

UploadCall(document_id, pages_data, is_pdf) ==
    [op |-> "upload", pc |-> "call", document_id |-> document_id,
     pages_data |-> pages_data, is_pdf |-> is_pdf, session |-> {},
     upload_chunks |-> <<>>, embeddings |-> <<>>, records |-> <<>>,
     failed_at |-> "", status |-> 0, chunks_created |-> -1]

DeleteCall(document_id) ==
    [op |-> "delete", pc |-> "call", document_id |-> document_id,
     failed_at |-> "", status |-> 0]

\* routes.py:170-181 -- except Exception: db.rollback(); ...; 500
UploadFails(stage) ==
    /\ documents' = Rollback(documents, docop.session)
    /\ docop' = [docop EXCEPT !.pc = "done", !.status = 500,
                              !.failed_at = stage, !.session = {}]

\* routes.py:46-110 -- validation, duplicate check, the Document row is
\* added and flushed, the pages are chunked
UploadBegin ==
    /\ docop.pc = "call"
    /\ docop.op = "upload"
    /\ IF ~docop.is_pdf
       THEN docop' = [docop EXCEPT !.pc = "done", !.status = 400]
       ELSE IF docop.document_id \in documents
       THEN docop' = [docop EXCEPT !.pc = "done", !.status = 409]
       ELSE docop' = [docop EXCEPT
                !.pc = "embedding",
                !.session = {docop.document_id},
                !.upload_chunks = ChunkPagesFrom(docop.pages_data, 1, 0)]
    /\ UNCHANGED <<index, chunks, documents, chunker, embedder, scoring, tasks,
                   request_vars>>

\* routes.py:113-114 -- generate_embeddings_batch(chunk_texts); no provider
\* call is made for an empty list
UploadEmbed ==
    /\ docop.pc = "embedding"
    /\ \E ok \in BOOLEAN :
         IF ok \/ docop.upload_chunks = <<>>
         THEN /\ docop' = [docop EXCEPT
                     !.pc = "index_add",
                     !.embeddings =
                         BatchEmbeddings([p \in 1..Len(docop.upload_chunks) |->
                                             docop.upload_chunks[p].content])]
              /\ UNCHANGED documents
         ELSE UploadFails("embedding")
    /\ UNCHANGED <<index, chunks, chunker, embedder, scoring, tasks,
                   request_vars>>

\* routes.py:117-152 -- the records are prepared and the vectors added
UploadIndexAdd ==
    /\ docop.pc = "index_add"
    /\ LET records == UploadRecords(docop.document_id, docop.upload_chunks,
                                    docop.embeddings)
       IN  \E ok \in BOOLEAN :
             IF ok
             THEN /\ index' = index \cup
                         {[id |-> records[p].id, user_id |-> "default_user"] :
                             p \in 1..Len(records)}
                  /\ docop' = [docop EXCEPT !.pc = "commit",
                                            !.records = records]
                  /\ UNCHANGED documents
             ELSE /\ UploadFails("index_add")
                  /\ UNCHANGED index
    /\ UNCHANGED <<chunks, chunker, embedder, scoring, tasks, request_vars>>

\* routes.py:155-168 -- db.add_all(chunk_records); db.commit(); 201
UploadCommit ==
    /\ docop.pc = "commit"
    /\ docop.op = "upload"
    /\ \E ok \in BOOLEAN :
         IF ok
         THEN /\ documents' = documents \cup docop.session
              /\ chunks' = chunks \cup
                     {docop.records[p].id : p \in 1..Len(docop.records)}
              /\ docop' = [docop EXCEPT
                     !.pc = "done", !.status = 201, !.session = {},
                     !.chunks_created = Len(docop.upload_chunks)]
         ELSE /\ UploadFails("commit")
              /\ UNCHANGED chunks
    /\ UNCHANGED <<index, chunker, embedder, scoring, tasks, request_vars>>

\* routes.py:294-304 -- the lookup and the deletion from the index
DeleteDocument ==
    /\ docop.pc = "call"
    /\ docop.op = "delete"
    /\ IF docop.document_id \notin documents
       THEN /\ docop' = [docop EXCEPT !.pc = "done", !.status = 404]
            /\ UNCHANGED index
       ELSE \E ok \in BOOLEAN :
              IF ok
              THEN /\ index' = IndexWithout(index, docop.document_id)
                   /\ docop' = [docop EXCEPT !.pc = "unlink"]
              ELSE /\ docop' = [docop EXCEPT !.pc = "done", !.status = 500,
                                             !.failed_at = "index_delete"]
                   /\ UNCHANGED index
    /\ UNCHANGED <<chunks, documents, chunker, embedder, scoring, tasks,
                   request_vars>>

\* routes.py:307-309 -- the file is removed
DeleteFile ==
    /\ docop.pc = "unlink"
    /\ \E ok \in BOOLEAN :
         IF ok
         THEN docop' = [docop EXCEPT !.pc = "commit"]
         ELSE docop' = [docop EXCEPT !.pc = "done", !.status = 500,
                                     !.failed_at = "unlink"]
    /\ UNCHANGED <<index, chunks, documents, chunker, embedder, scoring, tasks,
                   request_vars>>

\* routes.py:312-323 -- db.delete(document); db.commit(), or the rollback
DeleteCommit ==
    /\ docop.pc = "commit"
    /\ docop.op = "delete"
    /\ \E ok \in BOOLEAN :
         IF ok
         THEN /\ documents' = documents \ {docop.document_id}
              /\ chunks' = CascadeChunks(chunks, docop.document_id)
              /\ docop' = [docop EXCEPT !.pc = "done", !.status = 204]
         ELSE /\ docop' = [docop EXCEPT !.pc = "done", !.status = 500,
                                        !.failed_at = "commit"]
              /\ UNCHANGED <<chunks, documents>>
    /\ UNCHANGED <<index, chunker, embedder, scoring, tasks, request_vars>>

\* the documents uploaded before, each with its index entries and rows
InitStore ==
    /\ \E present \in SUBSET Docs :
          /\ documents = present
          /\ chunks = UNION {StoredChunkIds(d) : d \in present}
          /\ index = {[id |-> c, user_id |-> "default_user"] :
                         c \in UNION {StoredChunkIds(d) : d \in present}}
    /\ Idle
    /\ chunker = NotCalled
    /\ embedder = NotCalled
    /\ scoring = NotCalled
    /\ tasks = <<>>
    /\ \/ \E d \in Docs, ps \in UploadPages, is_pdf \in BOOLEAN :
             docop = UploadCall(d, ps, is_pdf)
       \/ \E d \in Docs : docop = DeleteCall(d)

NextStore ==
    \/ UploadBegin
    \/ UploadEmbed
    \/ UploadIndexAdd
    \/ UploadCommit
    \/ DeleteDocument
    \/ DeleteFile
    \/ DeleteCommit

SpecStore == InitStore /\ [][NextStore]_vars

\* ================================================================ claims
IsPrefix(s, t) == Len(s) <= Len(t) /\ \A i \in 1..Len(s) : s[i] = t[i]
HasType(evs, t) == \E i \in 1..Len(evs) : evs[i].type = t
StaleHit(h) == h.id \notin chunks \/ DocOf(h.id) \notin documents

\* hits the index holds for the current request, with and without the filter
FilteredHits ==
    VectorSearch(index_calls[1].query_embedding, request.top_k, request.user_id)
UnfilteredHits ==
    VectorSearch(index_calls[1].query_embedding, request.top_k, NoFilter)

\* C1 -- semantic_search issues the filtered query first; when it returns
\* zero hits exactly one more query follows, with the same embedding and
\* top_k and no filter; when it returns a hit no unfiltered query is ever
\* issued; a search makes at most two index queries.
C1_FallbackPolicy ==
    /\ Len(index_calls) <= 2
    /\ index_calls # <<>> =>
         /\ index_calls[1] = IndexCall(Embedding(Question), request.top_k,
                                       request.user_id)
         /\ Len(index_calls) = 2 =>
              /\ index_calls[2] = IndexCall(index_calls[1].query_embedding,
                                            index_calls[1].n_results, NoFilter)
              /\ Len(FilteredHits) = 0
    /\ searched =>
         Len(index_calls) = (IF Len(FilteredHits) = 0 THEN 2 ELSE 1)

C1_Witness ==
    /\ searched
    /\ Len(index_calls) = 2
    /\ search_results # <<>>

\* C2 -- answer_question with an empty retrieval returns the fixed fallback
\* answer, no sources, context_used 0, confidence "none" and zero usage,
\* and the model provider is not called.
C2_NoContext ==
    (request.op = "ask" /\ searched /\ search_results = <<>>) =>
        /\ pc = "done"
        /\ outcome = "http_200"
        /\ generator_calls = 0
        /\ Len(result) = 1
        /\ result[1].answer = FallbackAnswer
        /\ result[1].sources = <<>>
        /\ result[1].context_used = 0
        /\ result[1].confidence = "none"
        /\ result[1].usage = [prompt_tokens |-> 0, completion_tokens |-> 0,
                              total_tokens |-> 0]

C2_Witness ==
    /\ request.op = "ask"
    /\ searched
    /\ search_results = <<>>
    /\ vector_results # <<>>
    /\ pc = "done"

\* C3 -- a streaming request that completes emits one sources event with one
\* entry per retrieved source, then one answer event per fragment of the
\* answer stream in order, then one done event; done is always last.
C3_StreamOrder ==
    /\ \A i \in 1..Len(events) : events[i].type = "done" => i = Len(events)
    /\ outcome = "stream_complete" =>
         /\ Len(events) = Len(fragments) + 2
         /\ events[1].type = "sources"
         /\ Len(events[1].data) = Len(search_results)
         /\ \A i \in 1..Len(search_results) :
              /\ events[1].data[i].source_id = i
              /\ events[1].data[i].relevance_score
                   = search_results[i].relevance_score
         /\ \A i \in 1..Len(fragments) :
              events[i + 1] = [type |-> "answer", data |-> fragments[i]]
         /\ events[Len(events)] = [type |-> "done"]

C3_Witness ==
    /\ outcome = "stream_complete"
    /\ Len(search_results) = 2
    /\ fragments = <<"tok_b", "tok_a">>

\* C4 -- when the model provider fails during a streaming request the events
\* emitted are the sources event and the answer events of the fragments
\* received so far, and no done event is emitted.
C4_StreamFailure ==
    (request.op = "stream" /\ error = <<"ProviderError">>) =>
        /\ outcome = "stream_broken"
        /\ pc = "done"
        /\ ~HasType(events, "done")
        /\ Len(events) = Len(fragments) + 1
        /\ events[1].type = "sources"
        /\ \A i \in 1..Len(fragments) :
             events[i + 1] = [type |-> "answer", data |-> fragments[i]]

C4_Witness ==
    /\ outcome = "stream_broken"
    /\ Len(fragments) = 1
    /\ pulled = 2

\* C5 -- multi_query_rag returns one entry per question, in order; a question
\* that raised has an entry flagged error with empty sources, any other has
\* its full answer; a failure neither stops the loop nor leaves the batch.
C5_BatchIsolation ==
    request.op = "multi" =>
        /\ outcome \in {"pending", "returned"}
        /\ Len(answers) <= Len(request.questions)
        /\ \A i \in 1..Len(answers) :
             answers[i].question = request.questions[i]
        /\ pc = "done" =>
             /\ outcome = "returned"
             /\ Len(answers) = Len(request.questions)
        /\ (pc = "loop" /\ qi >= 1) =>
             /\ Len(answers) = qi
             /\ IF error # <<>>
                THEN /\ "error" \in DOMAIN answers[qi]
                     /\ answers[qi].error = TRUE
                     /\ answers[qi].sources = <<>>
                ELSE /\ "error" \notin DOMAIN answers[qi]
                     /\ Len(result) = 1
                     /\ \A f \in DOMAIN result[1] :
                          answers[qi][f] = result[1][f]

C5_Witness ==
    /\ request.op = "multi"
    /\ outcome = "returned"
    /\ Len(answers) = 3
    /\ "error" \notin DOMAIN answers[1]
    /\ "error" \in DOMAIN answers[2]
    /\ "error" \notin DOMAIN answers[3]
    /\ answers[1].sources # <<>>
    /\ answers[3].context_used = 0

\* C6 -- a request goes RETRIEVING, then NO_CONTEXT and nothing more, or
\* CONTEXT_ASSEMBLED, GENERATING, DONE; the generator is called at most once,
\* only after a non-empty retrieval whose context was assembled, and never
\* after NO_CONTEXT.
C6_RequestStates ==
    /\ \/ IsPrefix(phases, <<"RETRIEVING", "NO_CONTEXT">>)
       \/ IsPrefix(phases, <<"RETRIEVING", "CONTEXT_ASSEMBLED", "GENERATING",
                             "DONE">>)
    /\ generator_calls <= 1
    /\ generator_calls = 1 =>
         /\ searched
         /\ search_results # <<>>
         /\ Len(context.context_parts) = Len(search_results)
         /\ Len(phases) >= 3
    /\ (Len(phases) >= 3) = (generator_calls = 1)
    /\ (searched /\ search_results = <<>>) =>
         /\ generator_calls = 0
         /\ phases = <<"RETRIEVING", "NO_CONTEXT">>

C6_Witness ==
    /\ request.op = "stream"
    /\ phases = <<"RETRIEVING", "CONTEXT_ASSEMBLED", "GENERATING", "DONE">>
    /\ generator_calls = 1

C8_RetrievalFailure ==
    /\ (error # <<>> /\ error[1] \in {"EmbeddingError", "IndexError"}) =>
         /\ pc = "done"
         /\ outcome = "http_500"
         /\ result = <<>>
         /\ ~searched
         /\ generator_calls = 0
         /\ events = <<>>
         /\ phases = <<"RETRIEVING">>
         /\ error[1] = "EmbeddingError" => index_calls = <<>>
    /\ (searched /\ vector_results = <<>>) =>
         /\ error = <<>>
         /\ search_results = <<>>
         /\ outcome \in {"http_200", "streaming", "stream_complete",
                         "stream_aborted"}

C8_Witness ==
    /\ error = <<"IndexError">>
    /\ Len(index_calls) = 1
    /\ Len(FilteredHits) = 0
    /\ outcome = "http_500"

\* C9 -- semantic_search returns exactly the hits whose chunk row and document
\* row exist, in the order of the index, each once; stale hits are dropped
\* without a failure, so at most top_k results come back.
C9_StaleHitsDropped ==
    searched =>
        LET kept == SelectSeq(vector_results, LAMBDA h : ~StaleHit(h)) IN
        /\ error \in {<<>>, <<"ProviderError">>}
        /\ Len(search_results) = Len(kept)
        /\ \A i \in 1..Len(kept) :
             /\ search_results[i].chunk_id = kept[i].id
             /\ search_results[i].document_id = DocOf(kept[i].id)
        /\ \A i, j \in 1..Len(search_results) :
             search_results[i].chunk_id = search_results[j].chunk_id => i = j
        /\ Len(search_results) <= request.top_k

C9_Witness ==
    /\ searched
    /\ Len(vector_results) = 2
    /\ vector_results[1].id \in chunks
    /\ StaleHit(vector_results[1])
    /\ Len(search_results) = 1
    /\ search_results[1].chunk_id = vector_results[2].id

\* C10 -- after the consumer aborts a streaming answer nothing more is pulled
\* from the provider's stream, no exception reaches the caller, the response
\* is not completed and no done event is emitted.
C10_Abort ==
    aborted_at # -1 =>
        /\ pulled = aborted_at
        /\ error = <<>>
        /\ outcome = "stream_aborted"
        /\ ~HasType(events, "done")
        /\ Len(events) = Len(fragments) + 1

C10_Witness ==
    /\ aborted_at = 1
    /\ fragments = <<"tok_a">>
    /\ answer_stream = "generate_answer_stream"

\* pages of the call under way that the loop has passed
PagesDone == 1..(chunker.page - 1)
WordsOf(text) == Len(SplitText(text))
ChunksOfPage(p) ==
    {i \in 1..Len(chunker.all_chunks) :
        OriginPage(chunker.all_chunks[i].content) = p}

\* C11 -- the chunk_index values chunk_pages assigns are 0, 1, ..., n-1 in
\* output order: the counter is shared by all pages, is never reset between
\* pages, and a page that is empty after trimming consumes no index.
C11_ChunkIndex ==
    chunker.pc \in {"loop", "returned"} =>
        /\ \A i \in 1..Len(chunker.all_chunks) :
              chunker.all_chunks[i].chunk_index = i - 1
        /\ chunker.chunk_index = Len(chunker.all_chunks)

C11_Witness ==
    /\ chunker.pc = "returned"
    /\ Len(chunker.pages_data) = 3
    /\ ~BlankPage(chunker.pages_data[1].text)
    /\ BlankPage(chunker.pages_data[2].text)
    /\ chunker.pages_data[2].text # <<>>
    /\ Len(chunker.all_chunks) = 3
    /\ chunker.all_chunks[3].page_number = 3
    /\ chunker.all_chunks[3].chunk_index = 2

\* C12 -- every chunk records the page_number of the page it was cut from,
\* chunks appear in the order of their source pages, and a page whose text
\* is empty after trimming whitespace contributes no chunk and no error:
\* the call goes on and returns.
C12_PageProvenance ==
    chunker.pc \in {"loop", "returned"} =>
        /\ \A i \in 1..Len(chunker.all_chunks) :
              /\ chunker.all_chunks[i].page_number =
                     OriginPage(chunker.all_chunks[i].content)
              /\ chunker.all_chunks[i].metadata.page_number =
                     chunker.all_chunks[i].page_number
              /\ \A j \in i..Len(chunker.all_chunks) :
                     OriginPage(chunker.all_chunks[i].content) <=
                         OriginPage(chunker.all_chunks[j].content)
        /\ \A p \in PagesDone :
              /\ Cardinality(ChunksOfPage(chunker.pages_data[p].page_number))
                     = WordsOf(chunker.pages_data[p].text)
              /\ Strip(chunker.pages_data[p].text) = <<>> =>
                     /\ ChunksOfPage(chunker.pages_data[p].page_number) = {}
                     /\ chunker.pages_data[p].page_number \in chunker.skipped
        /\ chunker.pc = "returned" =>
              PagesDone = 1..Len(chunker.pages_data)

C12_Witness ==
    /\ chunker.pc = "returned"
    /\ Len(chunker.pages_data) = 3
    /\ chunker.pages_data[1].text = <<Whitespace>>
    /\ Len(chunker.all_chunks) = 3
    /\ chunker.all_chunks[1].page_number = 2
    /\ chunker.all_chunks[2].page_number = 2
    /\ chunker.all_chunks[3].page_number = 3
    /\ chunker.skipped = {1}

\* window of the input the j-th provider call of the call under way covers
Window(j) ==
    SubSeq(embedder.texts, (j - 1) * embedder.batch_size + 1,
           Min(j * embedder.batch_size, Len(embedder.texts)))
CeilDiv(n, b) == (n + b - 1) \div b

\* C13 -- generate_embeddings_batch calls the provider on consecutive
\* windows of at most batch_size texts, in input order: ceil(n / batch_size)
\* calls, none for an empty input; it returns n vectors, the i-th being the
\* embedding of the i-th input text.
C13_Batching ==
    embedder.pc \in {"loop", "returned"} /\ embedder.failed_batch = 0 =>
        /\ \A j \in 1..Len(embedder.requests) :
              /\ embedder.requests[j] = Window(j)
              /\ Len(embedder.requests[j]) \in 1..embedder.batch_size
        /\ Len(embedder.requests) <=
              CeilDiv(Len(embedder.texts), embedder.batch_size)
        /\ embedder.pc = "returned" =>
              /\ Len(embedder.requests) =
                    CeilDiv(Len(embedder.texts), embedder.batch_size)
              /\ Len(embedder.returned[1]) = Len(embedder.texts)
              /\ \A k \in 1..Len(embedder.texts) :
                    embedder.returned[1][k] = <<"embedding", embedder.texts[k]>>

C13_Witness ==
    /\ embedder.pc = "returned"
    /\ embedder.texts = <<"t1", "t2", "t2", "t1">>
    /\ embedder.batch_size = 3
    /\ embedder.requests = << <<"t1", "t2", "t2">>, <<"t1">> >>
    /\ Len(embedder.returned[1]) = 4

\* C14 -- when the provider call for batch j fails the failure propagates
\* at once: batch j is the last one requested and the vectors of the
\* batches before it are not returned as a partial result.
C14_BatchFailure ==
    embedder.pc # "idle" /\ embedder.failed_batch # 0 =>
        /\ embedder.pc = "raised"
        /\ embedder.returned = <<>>
        /\ Len(embedder.requests) = embedder.failed_batch
        /\ embedder.i = (embedder.failed_batch - 1) * embedder.batch_size

C14_Witness ==
    /\ embedder.pc = "raised"
    /\ embedder.failed_batch = 2
    /\ embedder.batch_size = 1
    /\ Len(embedder.texts) = 4
    /\ Len(embedder.all_embeddings) = 1
    /\ embedder.returned = <<>>

\* C15 -- for a raw distance d >= 0 the relevance_score is 1 / (1 + d)
\* rounded to 4 decimals (no 4-decimal number is nearer to the quotient), it
\* lies in (0, 1], and a larger distance never gets a larger score; distance
\* 0 gives 1.0, distance 1 gives 0.5, distance 4 gives 0.2.
C15_RelevanceScore ==
    scoring.pc = "returned" /\ scoring.fn = "relevance_score" =>
        LET ds == scoring.distances
            ss == scoring.value[1]
        IN  /\ Len(ss) = Len(ds)
            /\ \A k \in 1..Len(ds) :
                  /\ 2 * ss[k] * (100 + ds[k]) - 2 * 1000000 <= 100 + ds[k]
                  /\ 2 * 1000000 - 2 * ss[k] * (100 + ds[k]) <= 100 + ds[k]
                  /\ ss[k] > 0
                  /\ ss[k] <= 10000
                  /\ ds[k] = 0 => ss[k] = 10000
                  /\ ds[k] = 100 => ss[k] = 5000
                  /\ ds[k] = 400 => ss[k] = 2000
            /\ \A k, l \in 1..Len(ds) : ds[k] <= ds[l] => ss[k] >= ss[l]

C15_Witness ==
    /\ scoring.pc = "returned"
    /\ scoring.fn = "relevance_score"
    /\ scoring.distances = <<28, 400>>
    /\ scoring.value = << <<7812, 2000>> >>

\* verdict the thresholds give for a top score
Verdict(top) ==
    IF top >= 8000 THEN "high" ELSE IF top >= 6000 THEN "medium" ELSE "low"

\* C16 -- _estimate_confidence looks at results[0] only: "none" for an empty
\* list, "high" for a top score >= 0.8, "medium" for 0.6 <= top < 0.8, "low"
\* below 0.6 (0.81 high, exactly 0.6 medium, 0.59 low), whatever the scores
\* of the other results.
C16_Confidence ==
    scoring.pc = "returned" /\ scoring.fn = "estimate_confidence" =>
        LET rs == scoring.results
            c == scoring.value[1]
        IN  /\ rs = <<>> => c = "none"
            /\ rs # <<>> =>
                  /\ c = Verdict(rs[1].relevance_score)
                  /\ rs[1].relevance_score = 8100 => c = "high"
                  /\ rs[1].relevance_score = 6000 => c = "medium"
                  /\ rs[1].relevance_score = 5900 => c = "low"
                  /\ \A other \in ListsOver(ScoredResults, MaxResults) :
                        other # <<>> /\ other[1] = rs[1] =>
                            EstimateConfidence(other) = c

C16_Witness ==
    /\ scoring.pc = "returned"
    /\ scoring.fn = "estimate_confidence"
    /\ Len(scoring.results) = 2
    /\ scoring.results[1].relevance_score = 6000
    /\ scoring.results[2].relevance_score = 10000
    /\ scoring.value = <<"medium">>

\* C18 -- for a list of n results _build_context yields n context blocks
\* and n citations: the i-th citation has source_id i and the chunk_id of
\* the i-th result, the i-th block is labelled Source i and carries the
\* content of that same result.
C18_ContextAlignment ==
    scoring.pc = "returned" /\ scoring.fn = "build_context" =>
        LET rs == scoring.results
            built == scoring.value[1]
        IN  /\ Len(built.context_parts) = Len(rs)
            /\ Len(built.sources) = Len(rs)
            /\ \A i \in 1..Len(rs) :
                  /\ built.sources[i].source_id = i
                  /\ built.sources[i].chunk_id = rs[i].chunk_id
                  /\ built.context_parts[i].label = i
                  /\ built.context_parts[i].content = rs[i].content

C18_Witness ==
    /\ scoring.pc = "returned"
    /\ scoring.fn = "build_context"
    /\ Len(scoring.results) = 2
    /\ scoring.results[1].chunk_id = "d2_chunk_0"
    /\ scoring.results[2].chunk_id = "d1_chunk_0"
    /\ scoring.results[1].content # scoring.results[2].content
    /\ scoring.value[1].sources[2].source_id = 2
    /\ scoring.value[1].sources[2].chunk_id = "d1_chunk_0"

\* C19 -- the content_preview of a citation is the content unchanged when
\* it has at most 200 characters, else its first 200 characters followed by
\* the truncation marker; the marker is there exactly when the content is
\* longer than 200 characters.
C19_ContentPreview ==
    scoring.pc = "returned" /\ scoring.fn = "build_context" =>
        \A i \in 1..Len(scoring.results) :
            LET c == scoring.results[i].content
                pv == scoring.value[1].sources[i].content_preview
            IN  /\ Len(c) <= 200 => pv = c
                /\ Len(c) > 200 =>
                      /\ Len(pv) = 203
                      /\ \A k \in 1..200 : pv[k] = c[k]
                      /\ \A k \in 201..203 : pv[k] = "."
                /\ (\E k \in 1..Len(pv) : pv[k] = ".") <=> (Len(c) > 200)
                /\ Len(c) = 250 => Len(pv) = 203
                /\ Len(c) = 150 => pv = c

C19_Witness ==
    /\ scoring.pc = "returned"
    /\ scoring.fn = "build_context"
    /\ Len(scoring.results) = 1
    /\ Len(scoring.results[1].content) = 201
    /\ Len(scoring.value[1].sources[1].content_preview) = 203

\* C17 -- the list semantic_search returns is ordered by descending
\* relevance_score: the index answering in ascending distance, each result
\* scores at least as high as the one after it, also when stale hits were
\* dropped in between and after rounding, the list never being re-sorted.
C17_DescendingScores ==
    searched =>
        /\ \A i \in 1..(Len(vector_results) - 1) :
              vector_results[i].distance <= vector_results[i + 1].distance
        /\ \A i \in 1..(Len(search_results) - 1) :
              search_results[i].relevance_score >=
                  search_results[i + 1].relevance_score

C17_Witness ==
    /\ searched
    /\ Len(vector_results) = 3
    /\ StaleHit(vector_results[2])
    /\ Len(search_results) = 2
    /\ search_results[1].chunk_id = vector_results[1].id
    /\ search_results[2].chunk_id = vector_results[3].id
    /\ search_results[1].relevance_score > search_results[2].relevance_score

\* C20 -- with a non-empty retrieval include_sources changes nothing but the
\* sources of the result: retrieval, context assembly and generation run the
\* same way and the generator is called with the same context; sources is
\* empty when include_sources is false and the citations otherwise, while
\* answer, context_used, confidence, model and usage do not depend on it.
C20_IncludeSources ==
    request.op = "ask" /\ result # <<>> /\ search_results # <<>> =>
        LET r == result[1]
            n == Len(search_results)
        IN  /\ phases = <<"RETRIEVING", "CONTEXT_ASSEMBLED", "GENERATING",
                          "DONE">>
            /\ generator_calls = 1
            /\ Len(llm_request) = 1
            /\ llm_request[1].question = request.questions[1]
            /\ Len(llm_request[1].context) = 2 * n - 1
            /\ \A i \in 1..n :
                  /\ llm_request[1].context[2 * i - 1].label = i
                  /\ llm_request[1].context[2 * i - 1].content =
                         search_results[i].content
            /\ Len(context.sources) = n
            /\ r.sources = (IF request.include_sources
                            THEN context.sources ELSE <<>>)
            /\ r.answer \in LLMAnswers
            /\ r.context_used = n
            /\ r.confidence = Verdict(search_results[1].relevance_score)
            /\ r.model = LLMModel
            /\ r.usage = LLMUsage

C20_Witness ==
    /\ request.op = "ask"
    /\ ~request.include_sources
    /\ Len(search_results) = 2
    /\ result # <<>>
    /\ result[1].sources = <<>>
    /\ result[1].context_used = 2
    /\ result[1].confidence = "high"
    /\ Len(llm_request[1].context) = 3

\* chunk rows of the document a summary was asked for
OwnRows == {r \in docop.rows : r.document_id = docop.document_id}
AtMost20(m) == IF m <= 20 THEN m ELSE 20

\* C21 -- get_document_summary of an existing document with m chunks hands
\* the summarizer the contents of the first min(m, 20) chunks in ascending
\* chunk_index order and nothing beyond the 20th, and reports
\* chunks_analyzed = min(m, 20); for a document that does not exist it
\* fails with not-found and the generator is never invoked.
C21_Summary ==
    docop.pc \in {"summarizing", "done"} /\ docop.op = "summarize" =>
        LET m == Cardinality(OwnRows)
            n == AtMost20(m)
        IN  IF docop.document_id \notin documents
            THEN /\ docop.status = 404
                 /\ docop.summarizer_input = <<>>
                 /\ docop.result = <<>>
            ELSE /\ Len(docop.summarizer_input) = 1
                 /\ Len(docop.summarizer_input[1]) =
                        (IF n = 0 THEN 0 ELSE 2 * n - 1)
                 /\ \A i \in 1..n :
                        docop.summarizer_input[1][2 * i - 1].text_of =
                            <<docop.document_id, i - 1>>
                 /\ docop.status \in {0, 200, 500}
                 /\ (docop.status = 200) = (docop.result # <<>>)
                 /\ docop.result # <<>> =>
                        docop.result[1].chunks_analyzed = n

C21_Witness ==
    /\ docop.pc = "done"
    /\ docop.op = "summarize"
    /\ docop.status = 200
    /\ Cardinality(OwnRows) = 22
    /\ Cardinality(docop.rows) = 23
    /\ docop.result[1].chunks_analyzed = 20
    /\ Len(docop.summarizer_input[1]) = 39

\* what a request gets when it is served alone in the current world
AloneHits(req) ==
    LET filtered == VectorSearch(<<"embedding", req.question>>, TaskTopK,
                                 req.user_id)
    IN  IF Len(filtered) = 0
        THEN VectorSearch(<<"embedding", req.question>>, TaskTopK, NoFilter)
        ELSE filtered
AloneResults(req) == ProcessResults(AloneHits(req))
AloneResult(req) ==
    IF AloneResults(req) = <<>> THEN NoContextResult
    ELSE AnswerResult("llm_answer", AloneResults(req),
                      BuildContext(AloneResults(req)), TRUE)
AloneEvents(req) ==
    <<SourcesEvent(BuildContext(AloneResults(req)).sources),
      AnswerEvent(IF AloneResults(req) = <<>> THEN FallbackAnswer
                  ELSE "llm_answer"),
      DoneEvent>>

\* C22 -- requests in flight at the same time share no mutable state: in
\* every interleaving of their external calls each request ends with the
\* result (or the events) it gets when served alone in the same world, and
\* the provider call made for it carries its own question and the context
\* built from its own results.
C22_NoSharedState ==
    tasks # <<>> =>
        \A t \in DOMAIN tasks.calls :
            LET call == tasks.calls[t] IN
            /\ call.pc = "done" /\ call.request.op = "ask" =>
                   call.result = <<AloneResult(call.request)>>
            /\ call.pc = "done" /\ call.request.op = "stream" =>
                   call.events = AloneEvents(call.request)
            /\ call.pc = "done" =>
                   /\ tasks.frames[t].question = call.request.question
                   /\ tasks.frames[t].search_results =
                          AloneResults(call.request)
                   /\ tasks.frames[t].llm_request # <<>> =>
                          tasks.frames[t].llm_request[1].question =
                              call.request.question

C22_Witness ==
    /\ tasks # <<>>
    /\ tasks.calls[1].pc = "done"
    /\ tasks.calls[2].pc = "stream_answer"
    /\ tasks.calls[1].request.op = "ask"
    /\ tasks.calls[2].request.op = "stream"
    /\ tasks.calls[1].request.question # tasks.calls[2].request.question
    /\ tasks.calls[1].request.user_id # tasks.calls[2].request.user_id
    /\ tasks.calls[1].result # <<>>
    /\ tasks.calls[1].result[1].sources # <<>>
    /\ tasks.frames[2].search_results # <<>>
    /\ tasks.frames[1].search_results # tasks.frames[2].search_results
\* the index entries and the chunk rows of one document
IndexIdsOf(document_id) == {e.id : e \in {x \in index : DocOf(x.id) = document_id}}
RowIdsOf(document_id) == {c \in chunks : DocOf(c) = document_id}

\* C23: when the embedding call of an upload raises, the step leaves no
\* Document row and no chunk row of that upload in the store, adds nothing
\* to the index, and the upload ends with status 500.
C23_EmbeddingFailureIsTotal ==
    [][(docop.pc = "embedding" /\ docop'.failed_at = "embedding")
        => /\ docop'.status = 500
           /\ docop'.pc = "done"
           /\ docop.document_id \notin documents'
           /\ RowIdsOf(docop.document_id)' = {}
           /\ index' = index
           /\ IndexIdsOf(docop.document_id)' = {}]_vars

C23_Witness ==
    /\ docop.pc = "done"
    /\ docop.op = "upload"
    /\ docop.failed_at = "embedding"
    /\ Len(docop.upload_chunks) = MaxUploadChunks
    /\ docop.document_id \notin documents

\* C24: after a successful upload whose chunking yields n chunks, the index
\* holds exactly n entries and the store exactly n chunk rows of the
\* document, under the same pairwise distinct ids <document>_chunk_<i>,
\* i being the chunk_index of the chunk, and chunks_created is n.
C24_UploadConsistent ==
    (docop.pc = "done" /\ docop.op = "upload" /\ docop.status = 201)
    => LET d == docop.document_id
           n == Len(ChunkPagesFrom(docop.pages_data, 1, 0))
           ids == {UploadChunkId(d, i) : i \in 0..(n - 1)}
       IN  /\ docop.chunks_created = n
           /\ Cardinality(ids) = n
           /\ IndexIdsOf(d) = ids
           /\ Cardinality({e \in index : DocOf(e.id) = d}) = n
           /\ RowIdsOf(d) = ids
           /\ Len(docop.records) = n
           /\ \A p \in 1..n :
                /\ docop.records[p].chunk_index = p - 1
                /\ docop.records[p].id = UploadChunkId(d, p - 1)
                /\ docop.records[p].embedding_id = docop.records[p].id
           /\ d \in documents

C24_Witness ==
    /\ docop.pc = "done"
    /\ docop.op = "upload"
    /\ docop.status = 201
    /\ docop.chunks_created = MaxUploadChunks
    /\ Len(docop.pages_data) > 1

\* the results any search would return for a document
SearchReturns(document_id) ==
    \E q \in Questions, k \in TopKs, f \in Users \cup {NoFilter} :
       LET found == ProcessResults(VectorSearch(Embedding(q), k, f))
       IN  \E p \in 1..Len(found) : found[p].document_id = document_id

\* a step of delete_document that removes a row of the store starts where
\* the index holds no entry of the document
DeleteOrder ==
    [][(docop.pc # "idle" /\ docop.op = "delete"
        /\ (chunks' # chunks \/ documents' # documents))
        => IndexIdsOf(docop.document_id) = {}]_vars

\* what holds of the stores while and after delete_document runs
DeleteStates ==
    (docop.pc # "idle" /\ docop.op = "delete")
    => LET d == docop.document_id
       IN  /\ IndexIdsOf(d) \subseteq chunks
           /\ (docop.status = 204)
                => /\ IndexIdsOf(d) = {}
                   /\ RowIdsOf(d) = {}
                   /\ d \notin documents
                   /\ ~SearchReturns(d)
           /\ (docop.status = 500 /\ docop.failed_at \in {"unlink", "commit"})
                => /\ d \in documents
                   /\ RowIdsOf(d) = StoredChunkIds(d)
                   /\ IndexIdsOf(d) = {}
           /\ (docop.status = 500 /\ docop.failed_at = "index_delete")
                => /\ d \in documents
                   /\ RowIdsOf(d) = StoredChunkIds(d)
                   /\ IndexIdsOf(d) = StoredChunkIds(d)

\* C30: delete_document removes the index entries of the document before
\* any of its store rows; after a successful delete neither the index nor
\* the store holds a chunk of the document and no search returns one; when
\* a step after the index deletion fails, the document and its chunk rows
\* remain while its index entries are gone; at no point is there an index
\* entry of the document whose chunk row is missing.
C30_DeleteDocument == []DeleteStates /\ DeleteOrder

C30_Witness ==
    /\ docop.pc = "done"
    /\ docop.op = "delete"
    /\ docop.status = 204
    /\ docop.document_id = "d1"
    /\ documents = {"d2"}
    /\ SearchReturns("d2")

C30_RolledBack ==
    /\ docop.pc = "done"
    /\ docop.op = "delete"
    /\ docop.status = 500
    /\ docop.failed_at = "commit"
    /\ docop.document_id = "d1"
    /\ RowIdsOf("d1") # {}

\* the index entry a result was built from belongs to user u
OwnedBy(r, u) == \E e \in index : e.id = r.chunk_id /\ e.user_id = u

\* C25: the fallback is decided on the raw hit count of the filtered query:
\* the unfiltered query is issued exactly when that count is zero; when the
\* filtered query returns hits that are all stale, the search returns an
\* empty list after that single query and the request ends in NO_CONTEXT.
C25_FallbackOnRawCount ==
    /\ Len(index_calls) = 2 => Len(FilteredHits) = 0
    /\ searched =>
         /\ (Len(index_calls) = 1) = (Len(FilteredHits) >= 1)
         /\ (/\ Len(FilteredHits) >= 1
             /\ \A i \in 1..Len(FilteredHits) : StaleHit(FilteredHits[i]))
            => /\ search_results = <<>>
               /\ Len(index_calls) = 1
               /\ generator_calls = 0
               /\ phases = <<"RETRIEVING", "NO_CONTEXT">>
               /\ request.op = "ask" =>
                    /\ pc = "done"
                    /\ result = <<NoContextResult>>

C25_Witness ==
    /\ request.op = "ask"
    /\ pc = "done"
    /\ searched
    /\ Len(FilteredHits) = 2
    /\ \A i \in 1..Len(FilteredHits) : StaleHit(FilteredHits[i])
    /\ \E i \in 1..Len(UnfilteredHits) : ~StaleHit(UnfilteredHits[i])
    /\ result = <<NoContextResult>>

\* C26: when the filtered query for user u returns a hit, every result
\* returned comes from an index entry of u; a result from the entry of
\* another user is returned only after the filtered query returned no hit.
C26_IsolationWhenFilteredHits ==
    searched =>
        /\ Len(FilteredHits) >= 1 =>
             \A i \in 1..Len(search_results) :
                 OwnedBy(search_results[i], request.user_id)
        /\ (\E i \in 1..Len(search_results) :
               ~OwnedBy(search_results[i], request.user_id))
             => /\ Len(FilteredHits) = 0
                /\ Len(index_calls) = 2
                /\ index_calls[2].filter_metadata = NoFilter

\* the filtered query had hits of u although another user's entry is nearer
C26_Witness ==
    /\ searched
    /\ Len(FilteredHits) >= 1
    /\ Len(search_results) >= 1
    /\ \E e \in index :
          /\ e.user_id # request.user_id
          /\ Resolvable(e.id)
          /\ Distance(Question, e.id) < FilteredHits[1].distance

\* the fallback path returned the entry of another user
C26_FallbackCrossesUsers ==
    /\ searched
    /\ Len(FilteredHits) = 0
    /\ \E i \in 1..Len(search_results) :
          ~OwnedBy(search_results[i], request.user_id)

\* C27: a streaming request whose retrieval returns no result never calls
\* the generator and emits, in order, a sources event with empty data, an
\* answer event with the text of the synchronous NO_CONTEXT answer and a
\* done event, and nothing else.
C27_EmptyStream ==
    (request.op = "stream" /\ searched /\ search_results = <<>>)
    => /\ generator_calls = 0
       /\ llm_request = <<>>
       /\ IsPrefix(events, <<[type |-> "sources", data |-> <<>>],
                             [type |-> "answer",
                              data |-> NoContextResult.answer],
                             [type |-> "done"]>>)
       /\ outcome = "stream_complete" => Len(events) = 3
       /\ (pc = "done") = (Len(events) = 3)

C27_Witness ==
    /\ request.op = "stream"
    /\ searched
    /\ search_results = <<>>
    /\ vector_results # <<>>
    /\ pc = "done"
    /\ outcome = "stream_complete"
    /\ Len(events) = 3

\* C28: in a streaming request no event is emitted before retrieval and
\* context assembly are complete, and the provider is not called before the
\* sources event is out: a retrieval failure ends in one error response and
\* no event, a provider failure at the start of the call comes after the
\* sources event and nothing else.
C28_StreamOrder ==
    request.op = "stream" =>
        /\ events # <<>> =>
             /\ searched
             /\ context = (IF search_results = <<>> THEN NoContext
                           ELSE BuildContext(search_results))
             /\ events[1] = SourcesEvent(context.sources)
        /\ generator_calls >= 1 =>
             /\ events # <<>>
             /\ events[1].type = "sources"
        /\ (error # <<>> /\ error[1] \in {"EmbeddingError", "IndexError"}) =>
             /\ events = <<>>
             /\ generator_calls = 0
             /\ outcome = "http_500"
        /\ (error = <<"ProviderError">> /\ pulled = 0) =>
             /\ events = <<SourcesEvent(context.sources)>>
             /\ outcome = "stream_broken"

C28_Witness ==
    /\ request.op = "stream"
    /\ error = <<"ProviderError">>
    /\ pulled = 0
    /\ generator_calls = 1
    /\ Len(events) = 1
    /\ Len(events[1].data) = 2

\* the retrieval failure of a streaming request
C28_RetrievalFailed ==
    /\ request.op = "stream"
    /\ error = <<"IndexError">>
    /\ Len(index_calls) = 2
    /\ events = <<>>

\* C29: every result of answer_question has confidence "none" exactly when
\* context_used is 0, exactly when the generator was not called;
\* context_used is the number of results retrieved, at most top_k; with
\* include_sources the number of sources is context_used.
C29_ResultShape ==
    (request.op = "ask" /\ result # <<>>)
    => LET r == result[1]
       IN  /\ (r.confidence = "none") = (r.context_used = 0)
           /\ (r.context_used = 0) = (generator_calls = 0)
           /\ r.context_used = Len(search_results)
           /\ r.context_used <= request.top_k
           /\ request.include_sources => Len(r.sources) = r.context_used

C29_Witness ==
    /\ request.op = "ask"
    /\ result # <<>>
    /\ request.include_sources
    /\ result[1].confidence = "low"
    /\ result[1].context_used = 2
    /\ request.top_k = 3
    /\ generator_calls = 1

====
